---- MODULE Spec2Model ----
(***************************************************************************)
(* Model of the audio core of ApproachableMusic:                           *)
(*   - final_music_generator.py: MusicGeneratorApp.play_chord,             *)
(*     _play_audio_data, _perform_play_task, closeEvent                    *)
(*   - utils/audio_utils.py: MODE_INTERVALS, get_frequency                 *)
(***************************************************************************)
EXTENDS Integers, Sequences, FiniteSets, TLC

(***************************************************************************)
(* Program constants                                                       *)
(***************************************************************************)
sample_rate == 44100

chunk_size_samples == 512

MaxFadeMs == 500

(***************************************************************************)
(* Bounds of the model                                                     *)
(***************************************************************************)
\* number of playback sessions (worker threads) ever created
MaxPlays == 2

\* number of device calls that raise
MaxFaults == 1

\* lengths (in samples) of the rendered buffers handed to _play_audio_data;
\* -1 stands for None
AudioLists == {<<>>, <<0>>, <<-1, 0>>, <<1>>, <<1100, 600>>, <<-1, 15500>>}

\* positions of the interruption-fade slider (ms) that are tried
FadeValues == {0, 1, 350}

\* the requests and slider positions tried where termination is checked
ShortAudioLists == {<<>>, <<-1, 0>>, <<1100, 600>>}

ShortFadeValues == {0, 1, 90}


(***************************************************************************)
(* IEEE-754 binary64 arithmetic, as far as the program uses it.            *)
(* A double is [m |-> bits, e |-> k]: the value of the bit string m        *)
(* (most significant bit first, at most 53 bits) times 2^(-k).             *)
(***************************************************************************)
MantBits == 53

\* big naturals are kept as 10-bit limbs, most significant limb first
LimbBits == 10

LimbBase == 1024

\* number of limbs of the binary fraction computed by a division
FracLimbs == 7

RECURSIVE LimbsOfNat(_)
LimbsOfNat(n) ==
    IF n = 0 THEN <<>> ELSE Append(LimbsOfNat(n \div LimbBase), n % LimbBase)

RECURSIVE NatOfLimbs(_)
NatOfLimbs(l) ==
    IF l = <<>> THEN 0
    ELSE LimbBase * NatOfLimbs(SubSeq(l, 1, Len(l) - 1)) + l[Len(l)]

\* bit string (most significant bit first) of a limb string, and back
BitsOfLimbs(l) ==
    [i \in 1..(LimbBits * Len(l)) |->
        (l[((i - 1) \div LimbBits) + 1]
            \div (2 ^ (LimbBits - 1 - ((i - 1) % LimbBits)))) % 2]

LimbsOfBits(b) ==
    LET n   == (Len(b) + LimbBits - 1) \div LimbBits
        pad == LimbBits * n - Len(b)
        bit(i) == IF i <= pad THEN 0 ELSE b[i - pad]
    IN [j \in 1..n |->
          512 * bit(10 * j - 9) + 256 * bit(10 * j - 8) + 128 * bit(10 * j - 7)
          + 64 * bit(10 * j - 6) + 32 * bit(10 * j - 5) + 16 * bit(10 * j - 4)
          + 8 * bit(10 * j - 3) + 4 * bit(10 * j - 2) + 2 * bit(10 * j - 1)
          + bit(10 * j)]

\* all bits of b zero
AllZero(b) == \A i \in 1..Len(b) : b[i] = 0

\* b without its leading zeros
StripBits(b) ==
    IF AllZero(b) THEN <<>>
    ELSE LET f == CHOOSE i \in 1..Len(b) :
                      b[i] = 1 /\ \A j \in 1..(i - 1) : b[j] = 0
         IN SubSeq(b, f, Len(b))

NatOfBits(b) == NatOfLimbs(LimbsOfBits(b))

\* b + 1 on bit strings
IncBits(b) ==
    IF \A i \in 1..Len(b) : b[i] = 1
    THEN <<1>> \o [i \in 1..Len(b) |-> 0]
    ELSE LET z == CHOOSE i \in 1..Len(b) :
                      b[i] = 0 /\ \A j \in (i + 1)..Len(b) : b[j] = 1
         IN [i \in 1..Len(b) |-> IF i < z THEN b[i] ELSE IF i = z THEN 1 ELSE 0]

\* round-half-even of the bit string hi followed by the discarded bits lo;
\* sticky tells that a non-zero remainder lies below lo
RoundBits(hi, lo, sticky) ==
    LET up == /\ lo # <<>>
              /\ lo[1] = 1
              /\ \/ ~AllZero(SubSeq(lo, 2, Len(lo)))
                 \/ sticky
                 \/ (hi # <<>> /\ hi[Len(hi)] = 1)
    IN IF up THEN IncBits(hi) ELSE hi

\* a rounded mantissa that carried into a 54th bit is renormalised
Normalise(m, e) ==
    IF Len(m) > MantBits
    THEN [m |-> SubSeq(m, 1, MantBits), e |-> e - (Len(m) - MantBits)]
    ELSE [m |-> m, e |-> e]

\* the double nearest to (bit string p) * 2^(-e), sticky as in RoundBits
RoundToDbl(p, e, sticky) ==
    IF Len(p) <= MantBits THEN [m |-> p, e |-> e]
    ELSE Normalise(RoundBits(SubSeq(p, 1, MantBits),
                             SubSeq(p, MantBits + 1, Len(p)), sticky),
                   e - (Len(p) - MantBits))

\* long division: the next k limbs of r/den below the limbs already produced
RECURSIVE FracDigits(_, _, _, _)
FracDigits(r, den, limbs, k) ==
    IF k = 0 THEN [limbs |-> limbs, rem |-> r]
    ELSE FracDigits((r * LimbBase) % den, den,
                    Append(limbs, (r * LimbBase) \div den), k - 1)

\* float(num) / float(den) for small naturals: the correctly rounded quotient
DblDiv(num, den) ==
    LET x == FracDigits(num % den, den, LimbsOfNat(num \div den), FracLimbs)
    IN RoundToDbl(StripBits(BitsOfLimbs(x.limbs)), LimbBits * FracLimbs,
                  x.rem # 0)

\* exact product of a limb string and a small natural
RECURSIVE MulLimbs(_, _, _, _)
MulLimbs(l, k, i, carry) ==
    IF i = 0 THEN LimbsOfNat(carry)
    ELSE LET v == l[i] * k + carry
         IN Append(MulLimbs(l, k, i - 1, v \div LimbBase), v % LimbBase)

\* d * float(k): the correctly rounded product
DblMulNat(d, k) ==
    LET l == LimbsOfBits(d.m)
    IN RoundToDbl(StripBits(BitsOfLimbs(MulLimbs(l, k, Len(l), 0))), d.e, FALSE)

\* sum of two limb strings of the same length
RECURSIVE AddLimbs(_, _, _, _)
AddLimbs(a, b, i, carry) ==
    IF i = 0 THEN LimbsOfNat(carry)
    ELSE LET v == a[i] + b[i] + carry
         IN Append(AddLimbs(a, b, i - 1, v \div LimbBase), v % LimbBase)

\* a + b: the correctly rounded sum of two non-negative doubles
DblAdd(a, b) ==
    LET e  == IF a.e >= b.e THEN a.e ELSE b.e
        pa == a.m \o [i \in 1..(e - a.e) |-> 0]
        pb == b.m \o [i \in 1..(e - b.e) |-> 0]
        n  == IF Len(pa) >= Len(pb) THEN Len(pa) ELSE Len(pb)
        la == LimbsOfBits([i \in 1..(n - Len(pa)) |-> 0] \o pa)
        lb == LimbsOfBits([i \in 1..(n - Len(pb)) |-> 0] \o pb)
    IN RoundToDbl(StripBits(BitsOfLimbs(AddLimbs(la, lb, Len(la), 0))), e,
                  FALSE)

\* difference of two limb strings of the same length, a >= b
RECURSIVE SubLimbs(_, _, _, _)
SubLimbs(a, b, i, borrow) ==
    IF i = 0 THEN <<>>
    ELSE LET v == a[i] - b[i] - borrow
         IN Append(SubLimbs(a, b, i - 1, IF v < 0 THEN 1 ELSE 0),
                   IF v < 0 THEN v + LimbBase ELSE v)

\* a - b: the correctly rounded difference of two doubles, a >= b >= 0
DblSub(a, b) ==
    LET e  == IF a.e >= b.e THEN a.e ELSE b.e
        pa == a.m \o [i \in 1..(e - a.e) |-> 0]
        pb == b.m \o [i \in 1..(e - b.e) |-> 0]
        n  == IF Len(pa) >= Len(pb) THEN Len(pa) ELSE Len(pb)
        la == LimbsOfBits([i \in 1..(n - Len(pa)) |-> 0] \o pa)
        lb == LimbsOfBits([i \in 1..(n - Len(pb)) |-> 0] \o pb)
    IN RoundToDbl(StripBits(BitsOfLimbs(SubLimbs(la, lb, Len(la), 0))), e,
                  FALSE)

\* int(d) for a non-negative double below 2^31: truncation
DblToInt(d) ==
    IF d.e <= 0 THEN NatOfBits(d.m \o [i \in 1..(0 - d.e) |-> 0])
    ELSE IF Len(d.m) <= d.e THEN 0
    ELSE NatOfBits(SubSeq(d.m, 1, Len(d.m) - d.e))

Min(a, b) == IF a <= b THEN a ELSE b

Max(a, b) == IF a >= b THEN a ELSE b

(***************************************************************************)
(* _perform_play_task: length of the fade-out generated on abort           *)
(***************************************************************************)
\* the slider value taken for seconds
fade_samples_unscaled(fade_duration_ms) ==
    DblToInt(DblMulNat(DblDiv(fade_duration_ms, 1), sample_rate))

\* int((fade_duration_ms / 1000.0) * self.sample_rate)
fade_samples_to_generate(fade_duration_ms) ==
    DblToInt(DblMulNat(DblDiv(fade_duration_ms, 1000), sample_rate))

(***************************************************************************)
(* play_chord: the pitches of a chord                                      *)
(***************************************************************************)
\* utils/audio_utils.py: MODE_INTERVALS, in the order of MODES
MODE_INTERVALS ==
    << <<0, 2, 4, 5, 7, 9, 11>>,    \* Ionian
       <<0, 2, 3, 5, 7, 9, 10>>,    \* Dorian
       <<0, 1, 3, 5, 7, 8, 10>>,    \* Phrygian
       <<0, 2, 4, 6, 7, 9, 11>>,    \* Lydian
       <<0, 2, 4, 5, 7, 9, 10>>,    \* Mixolydian
       <<0, 2, 3, 5, 7, 8, 10>>,    \* Aeolian
       <<0, 1, 3, 5, 6, 8, 10>> >>  \* Locrian

\* utils/audio_utils.py: CHORD_QUALITIES, in the order of MODES
CHORD_QUALITIES ==
    << <<"major", "minor", "minor", "major", "major", "minor", "diminished">>,
       <<"minor", "minor", "major", "major", "minor", "diminished", "major">>,
       <<"minor", "major", "major", "minor", "diminished", "major", "minor">>,
       <<"major", "major", "minor", "diminished", "major", "minor", "minor">>,
       <<"major", "minor", "diminished", "major", "minor", "minor", "major">>,
       <<"minor", "diminished", "major", "minor", "minor", "major", "major">>,
       <<"diminished", "major", "minor", "minor", "major", "major", "minor">> >>

\* index sets of NOTES, MODES and of the seven chord buttons
NoteIdx == 0..11

ModeIdx == 0..6

ChordIdx == 0..6

\* range of self.octave_spin, and the offsets of the three buttons of a chord
OctaveRange == 1..8

OctaveOffsets == {-1, 0, 1}

\* the keys of a voicing dictionary, in the order play_chord tests them
ToneKeys == <<1, 3, 5, 7, 9, 11, 13>>

Tones == {1, 3, 5, 7, 9, 11, 13}

\* the voicing every degree is constructed with
DefaultVoicing == [t \in Tones |-> t \in {1, 3, 5}]

\* steps in the main scale from the chord's root to the tone
tone_steps(t) ==
    CASE t = 1 -> 0 [] t = 3 -> 2 [] t = 5 -> 4 [] t = 7 -> 6
      [] t = 9 -> 1 [] t = 11 -> 3 [] t = 13 -> 5

\* every tone left in the octave of the root
tone_oct_adj_none(t) == 0

\* 'oct_adj' of the tone
tone_oct_adj(t) == IF t \in {9, 11, 13} THEN 1 ELSE 0

\* the tones stacked from the tonic of the scale instead of from the degree
abs_note_from_tonic(root_note_idx, mode, chord_index, t) ==
    (root_note_idx + MODE_INTERVALS[mode + 1][(tone_steps(t) % 7) + 1]) % 12

\* the tones taken from the first five notes of the scale only
abs_note_within_fifth(root_note_idx, mode, chord_index, t) ==
    (root_note_idx
        + MODE_INTERVALS[mode + 1][((chord_index + tone_steps(t)) % 5) + 1])
    % 12

\* (root_note_idx + main_scale_intervals[(chord_index + steps) % 7]) % 12
abs_note(root_note_idx, mode, chord_index, t) ==
    (root_note_idx
        + MODE_INTERVALS[mode + 1][((chord_index + tone_steps(t)) % 7) + 1])
    % 12

\* the list of notes appended for the enabled tones, in the order of the code
notes_to_play_tuples(root_note_idx, mode, chord_index, voicing) ==
    LET enabled(t) == voicing[t]
        keys == SelectSeq(ToneKeys, enabled)
    IN [i \in 1..Len(keys) |->
          [abs_note |-> abs_note(root_note_idx, mode, chord_index, keys[i]),
           oct_adj  |-> tone_oct_adj(keys[i]),
           tone     |-> keys[i]]]

\* the octave taken as asked for, without the clamp to 0..8
effective_octave_unclamped(base_octave, octave_offset) ==
    base_octave + octave_offset

\* max(0, min(base_octave + octave_offset, 8))
effective_octave(base_octave, octave_offset) ==
    Max(0, Min(base_octave + octave_offset, 8))

\* lines 1135-1141
midi_note(eff_octave, note) ==
    LET m  == 12 * (eff_octave + note.oct_adj + 1) + note.abs_note
        m1 == IF m > 127 THEN m - 12 ELSE m
    IN IF m1 < 0 THEN m1 + 12 ELSE m1

\* the MIDI numbers computed by the loop of lines 1131-1143, in its order
chord_midi_notes(notes, base_octave, octave_offset) ==
    LET eo == effective_octave(base_octave, octave_offset)
    IN [i \in 1..Len(notes) |-> midi_note(eo, notes[i])]

\* 440 * 2 ** ((midi_note - 69) / 12), in thousandths of a hertz
FrequencyTable ==
    <<8176, 8662, 9177, 9723, 10301, 10913, 11562, 12250, 12978, 13750,
      14568, 15434, 16352, 17324, 18354, 19445, 20602, 21827, 23125, 24500,
      25957, 27500, 29135, 30868, 32703, 34648, 36708, 38891, 41203, 43654,
      46249, 48999, 51913, 55000, 58270, 61735, 65406, 69296, 73416, 77782,
      82407, 87307, 92499, 97999, 103826, 110000, 116541, 123471, 130813,
      138591, 146832, 155563, 164814, 174614, 184997, 195998, 207652, 220000,
      233082, 246942, 261626, 277183, 293665, 311127, 329628, 349228, 369994,
      391995, 415305, 440000, 466164, 493883, 523251, 554365, 587330, 622254,
      659255, 698456, 739989, 783991, 830609, 880000, 932328, 987767, 1046502,
      1108731, 1174659, 1244508, 1318510, 1396913, 1479978, 1567982, 1661219,
      1760000, 1864655, 1975533, 2093005, 2217461, 2349318, 2489016, 2637020,
      2793826, 2959955, 3135963, 3322438, 3520000, 3729310, 3951066, 4186009,
      4434922, 4698636, 4978032, 5274041, 5587652, 5919911, 6271927, 6644875,
      7040000, 7458620, 7902133, 8372018, 8869844, 9397273, 9956063, 10548082,
      11175303, 11839822, 12543854,
      \* MIDI 128..131: the notes B..D# of octave 10 before the correction
      13289750, 14080000, 14917240, 15804266>>

get_frequency(midi) == FrequencyTable[midi + 1]

\* the elements of a set of numbers in ascending order
RECURSIVE SortedSeq(_)
SortedSeq(S) ==
    IF S = {} THEN <<>>
    ELSE LET x == CHOOSE y \in S : \A z \in S : y <= z
         IN <<x>> \o SortedSeq(S \ {x})

\* list(set(frequencies)) left in the order of first insertion
list_set_unsorted(freq_list) ==
    LET first(i) == \A j \in 1..(i - 1) : freq_list[j] # freq_list[i]
        idx == SelectSeq([i \in 1..Len(freq_list) |-> i], first)
    IN [i \in 1..Len(idx) |-> freq_list[idx[i]]]

\* sorted(list(set(frequencies)))
sorted_list_set(freq_list) ==
    SortedSeq({freq_list[i] : i \in 1..Len(freq_list)})

\* the frequencies play_chord renders for the MIDI numbers of its loop
chord_frequencies(midis) ==
    sorted_list_set([i \in 1..Len(midis) |-> get_frequency(midis[i])])

\* int(self.sample_rate * (duration_s + delay_s)): the length of a voice buffer
voice_buffer_len(duration_ms, delay_ms) ==
    DblToInt(DblMulNat(DblAdd(DblDiv(duration_ms, 1000),
                              DblDiv(delay_ms, 1000)), sample_rate))

(***************************************************************************)
(* State                                                                   *)
(***************************************************************************)
VARIABLES
    ctl,                    \* control (UI) thread: idle, play_join, close_join, closed
    pending,                \* samples_to_play of the play request blocked in join()
    abort_audio_flag,       \* self.abort_audio_flag
    audio_playback_thread,  \* self.audio_playback_thread: 0 is None, else a session
    interruption_fade,      \* self.interruption_fade_slider.value()
    worker,                 \* the playback threads, one record per session
    stream,                 \* the PyAudio stream of each session
    writes,                 \* per session, the stream.write calls that returned
    events,                 \* per session, the audio_chunk_for_spectrum emissions
    nplays,                 \* sessions created so far
    nfaults,                \* device calls that raised so far
    pa_terminated,          \* self.p.terminate() was called
    timed_out,              \* closeEvent's join(timeout=1.0) returned on a live thread
    root_idx,               \* self.root_dial.get_index()
    mode_idx,               \* self.mode_dial.get_index()
    octave,                 \* self.octave_spin.value()
    chord_degree_voicings,  \* self.chord_degree_voicings, indexed by chord degree
    voice_controls,         \* the values of self.voice_controls, one record per voice
    chord_request,          \* play_chord: (chord_index, octave_offset) of its last call
    midi_notes,             \* play_chord: the MIDI numbers of its last call
    frequencies,            \* play_chord: the list 'frequencies' of its last call
    voice_audio,            \* play_chord: the voice buffers rendered by its last call
    waveform_args,          \* generate_waveform: the arguments of a call
    samples,                \* generate_waveform: the buffer the call returned
    audio_data_list,        \* _play_audio_data: buffers given with their samples
    mixed_audio,            \* _play_audio_data: 'mixed_audio' after normalisation
    samples_16bit,          \* _play_audio_data: 'samples_16bit'
    presets,                \* PresetManager.presets
    presets_file,           \* the contents of presets.json
    preset_call,            \* the last call made on the PresetManager
    heap,                   \* the dicts of voice settings, by address
    held,                   \* the settings list the caller of the store holds
    last_saved,             \* per name, the settings last given to save_preset
    lastOp                  \* the last handler the control thread ran

playvars == <<ctl, pending, abort_audio_flag, audio_playback_thread,
              interruption_fade, worker, stream, writes, events, nplays,
              nfaults, pa_terminated, timed_out>>

\* the controls play_chord reads, and what it last resolved
\* what the handlers last computed besides the pitches
synthvars == <<waveform_args, samples>>

mixvars == <<audio_data_list, mixed_audio, samples_16bit>>

datavars == <<heap, held, last_saved>>

presetvars == <<presets, presets_file, preset_call, datavars>>

othervars == <<voice_audio, synthvars, mixvars, presetvars>>

uivars == <<root_idx, mode_idx, octave, chord_degree_voicings, voice_controls,
            chord_request, midi_notes, frequencies, othervars>>

vars == <<ctl, pending, abort_audio_flag, audio_playback_thread,
          interruption_fade, worker, stream, writes, events, nplays,
          nfaults, pa_terminated, timed_out, root_idx, mode_idx, octave,
          chord_degree_voicings, voice_controls, chord_request, midi_notes,
          frequencies, othervars,
          lastOp>>

Sessions == 1..MaxPlays

\* a thread object that was never started, or was dropped after it ended
NoThread ==
    [pc |-> "unborn", N |-> 0, offset |-> 0, abort_at |-> -1, fade_ms |-> -1,
     fade_len |-> 0, fade_offset |-> 0, exit |-> "", faulted |-> FALSE,
     late |-> 0]

\* threading.Thread(target=self._perform_play_task, args=(samples_to_play,))
NewThread(n) == [NoThread EXCEPT !.pc = "open", !.N = n]

\* Thread.is_alive()
is_alive(s) == worker[s].pc \notin {"unborn", "done", "crashed"}

PlayInit ==
    /\ ctl = "idle"
    /\ pending = 0
    /\ abort_audio_flag = FALSE
    /\ audio_playback_thread = 0
    /\ interruption_fade = 90
    /\ worker = [s \in Sessions |-> NoThread]
    /\ stream = [s \in Sessions |-> "none"]
    /\ writes = [s \in Sessions |-> <<>>]
    /\ events = [s \in Sessions |-> <<>>]
    /\ nplays = 0
    /\ nfaults = 0
    /\ pa_terminated = FALSE
    /\ timed_out = FALSE

(***************************************************************************)
(* _play_audio_data                                                        *)
(***************************************************************************)
\* max_len over the entries that are not None
RECURSIVE max_len(_)
max_len(lens) ==
    IF lens = <<>> THEN 0 ELSE Max(Head(lens), max_len(Tail(lens)))

\* the request returns before a buffer is mixed
NoAudio(lens) == lens = <<>> \/ max_len(lens) = 0

\* Thread.join(): blocks the caller until the thread has ended
JoinReturns(s) == ~is_alive(s)

\* a start of the new thread that leaves the flag as the request before set it
StartThread_keeping_flag(n) ==
    LET id == nplays + 1
        old == audio_playback_thread
        dropped(s) == s = old /\ s # 0 /\ ~is_alive(s)
    IN /\ nplays' = id
       /\ audio_playback_thread' = id
       /\ worker' = [s \in Sessions |->
                        IF s = id THEN NewThread(n)
                        ELSE IF dropped(s) THEN NoThread ELSE worker[s]]
       /\ writes' = [s \in Sessions |->
                        IF s = id \/ dropped(s) THEN <<>> ELSE writes[s]]
       /\ events' = [s \in Sessions |->
                        IF s = id \/ dropped(s) THEN <<>> ELSE events[s]]
       /\ ctl' = "idle"
       /\ pending' = 0
       /\ UNCHANGED <<abort_audio_flag, interruption_fade, stream, nfaults,
                      pa_terminated, timed_out>>

\* lines 924-931: reset the flag, create and start the new playback thread;
\* the thread object that the handle named before is dropped once it is dead
StartThread(n) ==
    LET id == nplays + 1
        old == audio_playback_thread
        dropped(s) == s = old /\ s # 0 /\ ~is_alive(s)
    IN /\ abort_audio_flag' = FALSE
       /\ nplays' = id
       /\ audio_playback_thread' = id
       /\ worker' = [s \in Sessions |->
                        IF s = id THEN NewThread(n)
                        ELSE IF dropped(s) THEN NoThread ELSE worker[s]]
       /\ writes' = [s \in Sessions |->
                        IF s = id \/ dropped(s) THEN <<>> ELSE writes[s]]
       /\ events' = [s \in Sessions |->
                        IF s = id \/ dropped(s) THEN <<>> ELSE events[s]]
       /\ ctl' = "idle"
       /\ pending' = 0
       /\ UNCHANGED <<interruption_fade, stream, nfaults, pa_terminated,
                      timed_out>>

\* a handler that signals the running worker before it looks at its buffers
play_audio_data_abort_first(lens) ==
    IF NoAudio(lens)
    THEN /\ abort_audio_flag' = (\/ abort_audio_flag
                                 \/ /\ audio_playback_thread # 0
                                    /\ is_alive(audio_playback_thread))
         /\ UNCHANGED <<ctl, pending, audio_playback_thread,
                        interruption_fade, worker, stream, writes, events,
                        nplays, nfaults, pa_terminated, timed_out>>
    ELSE /\ nplays < MaxPlays
         /\ IF audio_playback_thread # 0 /\ is_alive(audio_playback_thread)
            THEN /\ abort_audio_flag' = TRUE
                 /\ ctl' = "play_join"
                 /\ pending' = max_len(lens)
                 /\ UNCHANGED <<audio_playback_thread, interruption_fade,
                                worker, stream, writes, events, nplays,
                                nfaults, pa_terminated, timed_out>>
            ELSE StartThread(max_len(lens))

\* the handler up to the point where it returns or blocks in join()
play_audio_data(lens) ==
    IF NoAudio(lens)
    THEN UNCHANGED playvars
    ELSE /\ nplays < MaxPlays
         /\ IF audio_playback_thread # 0 /\ is_alive(audio_playback_thread)
            THEN /\ abort_audio_flag' = TRUE
                 /\ ctl' = "play_join"
                 /\ pending' = max_len(lens)
                 /\ UNCHANGED <<audio_playback_thread, interruption_fade,
                                worker, stream, writes, events, nplays,
                                nfaults, pa_terminated, timed_out>>
            ELSE StartThread(max_len(lens))

PlayFrom(lists) ==
    /\ ctl = "idle"
    /\ \E lens \in lists :
          /\ play_audio_data(lens)
          /\ lastOp' = IF NoAudio(lens) THEN "play_nothing" ELSE "play"
    /\ UNCHANGED uivars

Play == PlayFrom(AudioLists)

\* join() of line 922 returns and the handler runs to its end
PlayJoinReturn ==
    /\ ctl = "play_join"
    /\ JoinReturns(audio_playback_thread)
    /\ StartThread(pending)
    /\ UNCHANGED <<uivars, lastOp>>

\* the user moves the interruption-fade slider
SetInterruptionFadeTo(values) ==
    /\ ctl = "idle"
    /\ \E f \in values \ {interruption_fade} : interruption_fade' = f
    /\ lastOp' = "set_fade"
    /\ UNCHANGED <<ctl, pending, abort_audio_flag, audio_playback_thread,
                   worker, stream, writes, events, nplays, nfaults,
                   pa_terminated, timed_out, uivars>>

SetInterruptionFade == SetInterruptionFadeTo(FadeValues)

(***************************************************************************)
(* closeEvent                                                              *)
(***************************************************************************)
\* teardown that waits without raising the flag
CloseEvent_no_abort ==
    /\ ctl = "idle"
    /\ lastOp' = "close"
    /\ IF audio_playback_thread # 0 /\ is_alive(audio_playback_thread)
       THEN /\ ctl' = "close_join"
            /\ UNCHANGED pa_terminated
       ELSE /\ pa_terminated' = TRUE
            /\ ctl' = "closed"
    /\ UNCHANGED <<pending, abort_audio_flag, audio_playback_thread,
                   interruption_fade, worker, stream, writes, events, nplays,
                   nfaults, timed_out, uivars>>

CloseEvent ==
    /\ ctl = "idle"
    /\ lastOp' = "close"
    /\ IF audio_playback_thread # 0 /\ is_alive(audio_playback_thread)
       THEN /\ abort_audio_flag' = TRUE
            /\ ctl' = "close_join"
            /\ UNCHANGED pa_terminated
       ELSE /\ pa_terminated' = TRUE
            /\ ctl' = "closed"
            /\ UNCHANGED abort_audio_flag
    /\ UNCHANGED <<pending, audio_playback_thread, interruption_fade, worker,
                   stream, writes, events, nplays, nfaults, timed_out, uivars>>

\* join(timeout=1.0) returns, the thread having ended or not; self.p.terminate()
CloseJoinReturn ==
    /\ ctl = "close_join"
    /\ timed_out' = is_alive(audio_playback_thread)
    /\ pa_terminated' = TRUE
    /\ ctl' = "closed"
    /\ UNCHANGED <<pending, abort_audio_flag, audio_playback_thread,
                   interruption_fade, worker, stream, writes, events, nplays,
                   nfaults, uivars, lastOp>>

(***************************************************************************)
(* _perform_play_task, one action per device call or shared read           *)
(***************************************************************************)
\* where control goes when the call made at pc raises: the except clause of
\* line 999 and then the finally block, or the except clause of line 1007,
\* after which the thread ends
except_handler_uncaught(pc) ==
    IF pc \in {"open", "start_stream", "write", "fade_write"}
    THEN "finally" ELSE "crashed"

except_handler(pc) ==
    IF pc \in {"open", "start_stream", "write", "fade_write"}
    THEN "finally" ELSE "done"

\* a device call may raise
Raise(s, pc) ==
    /\ nfaults < MaxFaults
    /\ nfaults' = nfaults + 1
    /\ worker' = [worker EXCEPT ![s].pc = except_handler(pc),
                                ![s].faulted = TRUE,
                                ![s].exit = IF worker[s].exit = ""
                                            THEN "error" ELSE worker[s].exit]

Goto(s, pc) == worker' = [worker EXCEPT ![s].pc = pc]

\* stream = self.p.open(...)
W_open(s) ==
    /\ worker[s].pc = "open"
    /\ \/ /\ Goto(s, "start_stream")
          /\ stream' = [stream EXCEPT ![s] = "active"]
          /\ UNCHANGED nfaults
       \/ /\ Raise(s, "open")
          /\ UNCHANGED stream
    /\ UNCHANGED <<writes, events>>

\* stream.start_stream()
W_start_stream(s) ==
    /\ worker[s].pc = "start_stream"
    /\ \/ Goto(s, "loop") /\ UNCHANGED nfaults
       \/ Raise(s, "start_stream")
    /\ UNCHANGED <<stream, writes, events>>

\* while current_sample_offset < num_total_samples: if self.abort_audio_flag:
W_loop(s) ==
    /\ worker[s].pc = "loop"
    /\ IF worker[s].offset < worker[s].N
       THEN IF abort_audio_flag
            THEN worker' = [worker EXCEPT ![s].pc = "abort",
                                          ![s].abort_at = worker[s].offset]
            ELSE Goto(s, "write")
       ELSE worker' = [worker EXCEPT ![s].pc = "finally",
                                     ![s].exit = "complete"]
    /\ UNCHANGED <<stream, writes, events, nfaults>>

\* fade_samples_to_generate for every position of the slider (0..500 ms)
fade_samples_table ==
    [ms \in 0..MaxFadeMs |-> fade_samples_to_generate(ms)]

\* min(fade_samples_to_generate, len(remaining_samples_in_buffer))
actual_fade_len_samples(fade_duration_ms, remaining) ==
    Min(fade_samples_table[fade_duration_ms], remaining)

\* lines 952-968: the fade length for the slider position read on abort
abort_fade_len(s) ==
    IF interruption_fade > 0
    THEN actual_fade_len_samples(interruption_fade,
                                 worker[s].N - worker[s].offset)
    ELSE 0

\* lines 952-968 and the break of line 985 when nothing is to be faded
W_abort(s) ==
    /\ worker[s].pc = "abort"
    /\ worker' = [worker EXCEPT
                     ![s].fade_ms = interruption_fade,
                     ![s].fade_len = abort_fade_len(s),
                     ![s].pc = IF abort_fade_len(s) > 0
                               THEN "fade_write" ELSE "finally",
                     ![s].exit = IF abort_fade_len(s) > 0 THEN "" ELSE "abort"]
    /\ UNCHANGED <<stream, writes, events, nfaults>>

\* np.linspace(1.0, 0.0, n, endpoint=True)[k] for 0 <= k < n, as the
\* fraction num / den: one sample gives the array [1.0]; two or more give
\* steps of -1 / (n - 1) from 1.0, ending on 0.0
linspace_1_0(n, k) ==
    IF n = 1 THEN [num |-> 1, den |-> 1]
    ELSE [num |-> (n - 1) - k, den |-> n - 1]

\* a fade loop that also publishes each faded chunk
W_fade_write_emitting(s) ==
    /\ worker[s].pc = "fade_write"
    /\ LET w == worker[s]
           chunk_end == Min(w.fade_offset + chunk_size_samples, w.fade_len)
       IN \/ /\ writes' = [writes EXCEPT ![s] = Append(@,
                              [kind |-> "fade", lo |-> w.offset + w.fade_offset,
                               hi |-> w.offset + chunk_end])]
             /\ worker' = [worker EXCEPT
                              ![s].fade_offset = chunk_end,
                              ![s].pc = IF chunk_end < w.fade_len
                                        THEN "fade_write" ELSE "finally",
                              ![s].exit = IF chunk_end < w.fade_len
                                          THEN "" ELSE "abort"]
             /\ events' = [events EXCEPT ![s] = Append(@,
                              [lo |-> w.offset + w.fade_offset,
                               hi |-> w.offset + chunk_end])]
             /\ UNCHANGED <<stream, nfaults>>
          \/ /\ Raise(s, "fade_write")
             /\ \E st \in {"active", "stopped"} :
                   stream' = [stream EXCEPT ![s] = st]
             /\ UNCHANGED <<writes, events>>

\* a fade loop after which the playback loop is resumed
W_fade_write_no_break(s) ==
    /\ worker[s].pc = "fade_write"
    /\ LET w == worker[s]
           chunk_end == Min(w.fade_offset + chunk_size_samples, w.fade_len)
       IN \/ /\ writes' = [writes EXCEPT ![s] = Append(@,
                              [kind |-> "fade", lo |-> w.offset + w.fade_offset,
                               hi |-> w.offset + chunk_end])]
             /\ worker' = [worker EXCEPT
                              ![s].fade_offset = chunk_end,
                              ![s].pc = IF chunk_end < w.fade_len
                                        THEN "fade_write" ELSE "loop",
                              ![s].exit = IF chunk_end < w.fade_len
                                          THEN "" ELSE ""]
             /\ UNCHANGED <<stream, nfaults>>
          \/ /\ Raise(s, "fade_write")
             /\ \E st \in {"active", "stopped"} :
                   stream' = [stream EXCEPT ![s] = st]
             /\ UNCHANGED writes
    /\ UNCHANGED events

\* one iteration of the loop of lines 981-984, and the break after the last
W_fade_write(s) ==
    /\ worker[s].pc = "fade_write"
    /\ LET w == worker[s]
           chunk_end == Min(w.fade_offset + chunk_size_samples, w.fade_len)
       IN \/ /\ writes' = [writes EXCEPT ![s] = Append(@,
                              [kind |-> "fade", lo |-> w.offset + w.fade_offset,
                               hi |-> w.offset + chunk_end])]
             /\ worker' = [worker EXCEPT
                              ![s].fade_offset = chunk_end,
                              ![s].pc = IF chunk_end < w.fade_len
                                        THEN "fade_write" ELSE "finally",
                              ![s].exit = IF chunk_end < w.fade_len
                                          THEN "" ELSE "abort"]
             /\ UNCHANGED <<stream, nfaults>>
          \/ /\ Raise(s, "fade_write")
             /\ \E st \in {"active", "stopped"} :
                   stream' = [stream EXCEPT ![s] = st]
             /\ UNCHANGED writes
    /\ UNCHANGED events

\* a write of everything that is left of the buffer in one call
W_write_rest(s) ==
    /\ worker[s].pc = "write"
    /\ LET w == worker[s]
       IN \/ /\ writes' = [writes EXCEPT ![s] = Append(@,
                              [kind |-> "normal", lo |-> w.offset,
                               hi |-> w.N])]
             /\ worker' = [worker EXCEPT
                              ![s].pc = "emit",
                              ![s].late = IF abort_audio_flag
                                          THEN @ + w.N - w.offset
                                          ELSE @]
             /\ UNCHANGED <<stream, nfaults>>
          \/ /\ Raise(s, "write")
             /\ \E st \in {"active", "stopped"} :
                   stream' = [stream EXCEPT ![s] = st]
             /\ UNCHANGED writes
    /\ UNCHANGED events

\* stream.write(data_chunk_samples_int16.tobytes())
W_write(s) ==
    /\ worker[s].pc = "write"
    /\ LET w == worker[s]
           chunk_end_sample_offset == Min(w.offset + chunk_size_samples, w.N)
       IN \/ /\ writes' = [writes EXCEPT ![s] = Append(@,
                              [kind |-> "normal", lo |-> w.offset,
                               hi |-> chunk_end_sample_offset])]
             /\ worker' = [worker EXCEPT
                              ![s].pc = "emit",
                              ![s].late = IF abort_audio_flag
                                          THEN @ + chunk_end_sample_offset
                                                 - w.offset
                                          ELSE @]
             /\ UNCHANGED <<stream, nfaults>>
          \/ /\ Raise(s, "write")
             /\ \E st \in {"active", "stopped"} :
                   stream' = [stream EXCEPT ![s] = st]
             /\ UNCHANGED writes
    /\ UNCHANGED events

\* self.audio_chunk_for_spectrum.emit(...); current_sample_offset = chunk_end
W_emit(s) ==
    /\ worker[s].pc = "emit"
    /\ LET w == worker[s]
           chunk_end_sample_offset == Min(w.offset + chunk_size_samples, w.N)
       IN /\ events' = [events EXCEPT ![s] = Append(@,
                           [lo |-> w.offset, hi |-> chunk_end_sample_offset])]
          /\ worker' = [worker EXCEPT ![s].pc = "loop",
                                      ![s].offset = chunk_end_sample_offset]
    /\ UNCHANGED <<stream, writes, nfaults>>

\* finally: if stream: ... if stream.is_active():
W_finally(s) ==
    /\ worker[s].pc = "finally"
    /\ IF stream[s] = "none"
       THEN Goto(s, "done") /\ UNCHANGED nfaults
       ELSE \/ /\ Goto(s, IF stream[s] = "active" THEN "stop_stream" ELSE "close")
               /\ UNCHANGED nfaults
            \/ Raise(s, "is_active")
    /\ UNCHANGED <<stream, writes, events>>

\* stream.stop_stream()
W_stop_stream(s) ==
    /\ worker[s].pc = "stop_stream"
    /\ \/ /\ Goto(s, "close")
          /\ stream' = [stream EXCEPT ![s] = "stopped"]
          /\ UNCHANGED nfaults
       \/ /\ Raise(s, "stop_stream")
          /\ UNCHANGED stream
    /\ UNCHANGED <<writes, events>>

\* stream.close()
W_close(s) ==
    /\ worker[s].pc = "close"
    /\ \/ /\ Goto(s, "done")
          /\ stream' = [stream EXCEPT ![s] = "closed"]
          /\ UNCHANGED nfaults
       \/ /\ Raise(s, "close")
          /\ UNCHANGED stream
    /\ UNCHANGED <<writes, events>>

WorkerFrame ==
    UNCHANGED <<ctl, pending, abort_audio_flag, audio_playback_thread,
                interruption_fade, nplays, pa_terminated, timed_out, uivars,
                lastOp>>

Open == \E s \in Sessions : W_open(s) /\ WorkerFrame

StartStream == \E s \in Sessions : W_start_stream(s) /\ WorkerFrame

Loop == \E s \in Sessions : W_loop(s) /\ WorkerFrame

Abort == \E s \in Sessions : W_abort(s) /\ WorkerFrame

FadeWrite == \E s \in Sessions : W_fade_write(s) /\ WorkerFrame

Write == \E s \in Sessions : W_write(s) /\ WorkerFrame

Emit == \E s \in Sessions : W_emit(s) /\ WorkerFrame

Finally == \E s \in Sessions : W_finally(s) /\ WorkerFrame

StopStream == \E s \in Sessions : W_stop_stream(s) /\ WorkerFrame

Close == \E s \in Sessions : W_close(s) /\ WorkerFrame

WorkerStep ==
    \/ Open \/ StartStream \/ Loop \/ Abort \/ FadeWrite
    \/ Write \/ Emit \/ Finally \/ StopStream \/ Close

(***************************************************************************)
(* play_chord and the controls it reads                                    *)
(***************************************************************************)
Voices == 1..4

\* presets.py: DEFAULT_PRESET, applied by load_preset(0) during construction
DEFAULT_PRESET ==
    << [enable |-> TRUE, volume |-> 46, duration |-> 1282, delay |-> 43,
        fade_in |-> 232, fade_out |-> 1211],
       [enable |-> TRUE, volume |-> 2, duration |-> 2418, delay |-> 251,
        fade_in |-> 772, fade_out |-> 500],
       [enable |-> TRUE, volume |-> 4, duration |-> 2439, delay |-> 105,
        fade_in |-> 286, fade_out |-> 1488],
       [enable |-> TRUE, volume |-> 25, duration |-> 3471, delay |-> 939,
        fade_in |-> 438, fade_out |-> 1089] >>

(***************************************************************************)
(* The preset store (presets.py).  A settings list is named by where it    *)
(* comes from: "DEFAULT_PRESET", the name of a template, or "custom" for   *)
(* settings taken from the controls.  A dict is the sequence of its        *)
(* <<key, value>> pairs in insertion order; the elements of a JSON array   *)
(* are kept as pairs with an empty value.                                  *)
(***************************************************************************)
PRESET_TEMPLATES == {"Bright", "Soft", "Punchy"}

NoStore == [type |-> "none", items |-> <<>>]

\* key in d, element in list
contains(store, name) == \E i \in 1..Len(store.items) : store.items[i][1] = name

\* d[name] = data
dict_set(items, name, data) ==
    IF \E i \in 1..Len(items) : items[i][1] = name
    THEN [i \in 1..Len(items) |->
            IF items[i][1] = name THEN <<name, data>> ELSE items[i]]
    ELSE Append(items, <<name, data>>)

\* del d[name]
dict_del(items, name) ==
    LET keep(pair) == pair[1] # name IN SelectSeq(items, keep)

\* lines 64-71: the built-in presets
initial_presets ==
    [type |-> "dict",
     items |-> << <<"Default", "DEFAULT_PRESET">>, <<"Bright", "Bright">>,
                  <<"Soft", "Soft">>, <<"Punchy", "Punchy">> >>]

\* _load_presets: the store the constructor leaves, the one it writes to
\* presets.json, and whether it ends with an exception that it does not catch
load_presets(file) ==
    IF file.kind # "json"
    THEN [presets |-> initial_presets, saved |-> initial_presets,
          raised |-> FALSE]
    ELSE IF contains(file.value, "Default")
    THEN [presets |-> file.value, saved |-> NoStore, raised |-> FALSE]
    ELSE IF file.value.type = "dict"
    THEN LET d == [file.value EXCEPT
                      !.items = dict_set(@, "Default", "DEFAULT_PRESET")]
         IN [presets |-> d, saved |-> d, raised |-> FALSE]
    ELSE [presets |-> NoStore, saved |-> NoStore, raised |-> TRUE]

\* get_preset_names on a dict
get_preset_names(store) ==
    LET names == [i \in 1..Len(store.items) |-> store.items[i][1]]
        isnt_default(n) == n # "Default"
    IN IF contains(store, "Default")
       THEN <<"Default">> \o SelectSeq(names, isnt_default)
       ELSE names

\* the state after PresetManager() with the given presets.json
PresetsLoaded(file) ==
    LET r == load_presets(file)
    IN /\ presets = r.presets
       /\ presets_file = IF r.saved = NoStore THEN file
                         ELSE [kind |-> "json", value |-> r.saved]
       /\ preset_call = [op |-> IF r.raised THEN "init_raised" ELSE "init",
                         name |-> file.kind, before |-> file.value,
                         ret |-> "None", names |-> <<>>]
       /\ heap = <<>>
       /\ held = <<>>
       /\ last_saved = <<>>

\* nothing has been computed yet
OtherInit ==
    /\ voice_audio = <<>>
    /\ waveform_args = <<>>
    /\ samples = <<>>
    /\ audio_data_list = <<>>
    /\ mixed_audio = <<>>
    /\ samples_16bit = <<>>
    /\ PresetsLoaded([kind |-> "absent", value |-> NoStore])

\* the state of the controls after construction
UIInit ==
    /\ root_idx = 0
    /\ mode_idx = 0
    /\ octave = 4
    /\ chord_degree_voicings = [d \in ChordIdx |-> DefaultVoicing]
    /\ voice_controls = DEFAULT_PRESET
    /\ chord_request = <<>>
    /\ midi_notes = <<>>
    /\ frequencies = <<>>
    /\ OtherInit

\* _get_current_voice_settings(i)
get_current_voice_settings(i) == voice_controls[i]

\* durations and delays (ms) of the first voice that rendering is run with
RenderDurations == {100, 110}

RenderDelays == {0, 240}

\* the (duration, delay) pairs of the voice settings that occur
DurationDelayPairs ==
    {<<DEFAULT_PRESET[i].duration, DEFAULT_PRESET[i].delay>> : i \in Voices}
    \cup {<<100, 0>>} \cup (RenderDurations \X RenderDelays)

\* int(sample_rate * duration) of generate_waveform and
\* int(delay_s * self.sample_rate) of play_chord, for a time in ms / 1000.0
samples_of_ms(ms) == DblToInt(DblMulNat(DblDiv(ms, 1000), sample_rate))

samples_of_ms_table ==
    [ms \in {p[1] : p \in DurationDelayPairs}
              \cup {p[2] : p \in DurationDelayPairs} |-> samples_of_ms(ms)]

\* voice_buffer_len for the settings that occur
voice_buffer_len_table ==
    [p \in DurationDelayPairs |-> voice_buffer_len(p[1], p[2])]

\* lines 1149-1185: one buffer per enabled voice; a buffer is named by its length
all_audio_data ==
    LET enabled(i) == get_current_voice_settings(i).enable
        on == SelectSeq([i \in Voices |-> i], enabled)
    IN [k \in 1..Len(on) |->
          voice_buffer_len_table[<<get_current_voice_settings(on[k]).duration,
                                   get_current_voice_settings(on[k]).delay>>]]

\* lines 1174-1182: where a note of note_len samples is added into the voice
\* buffer, and how many of its last samples are left out
add_note(buffer_len, start_sample, note_len) ==
    LET end_sample == start_sample + note_len
        can_fit    == buffer_len - start_sample
    IN IF end_sample <= buffer_len
       THEN [start |-> start_sample, stop |-> end_sample, cut |-> 0]
       ELSE IF can_fit > 0
            THEN [start |-> start_sample, stop |-> buffer_len,
                  cut |-> note_len - can_fit]
            ELSE [start |-> start_sample, stop |-> start_sample,
                  cut |-> note_len]

\* lines 1151-1185: the buffer of every enabled voice, with the segment that
\* each of the n_freq frequencies was added into
render_voices(n_freq) ==
    LET enabled(i) == get_current_voice_settings(i).enable
        on == SelectSeq([i \in Voices |-> i], enabled)
        buf(i) ==
            LET st == get_current_voice_settings(i)
                L  == voice_buffer_len_table[<<st.duration, st.delay>>]
            IN [voice |-> i, len |-> L,
                notes |-> [k \in 1..n_freq |->
                              add_note(L, samples_of_ms_table[st.delay],
                                       samples_of_ms_table[st.duration])]]
    IN [k \in 1..Len(on) |-> buf(on[k])]

\* play_chord going on to render when no tone is enabled
chord_audio_data_no_return(notes) == all_audio_data

\* lines 1120-1123 and 1187: the list play_chord hands to _play_audio_data
chord_audio_data(notes) == IF notes = <<>> THEN <<>> ELSE all_audio_data

\* what the request asks for, told from the controls alone
chord_request_kind(chord_index) ==
    IF \A t \in Tones : ~chord_degree_voicings[chord_index][t]
    THEN "play_chord_no_tone"
    ELSE IF \A i \in Voices : ~voice_controls[i].enable
         THEN "play_chord_no_voice"
         ELSE "play_chord"

\* play_chord(chord_index, octave_offset), up to its return or to the join()
\* of _play_audio_data
PlayChord(chord_index, octave_offset) ==
    /\ ctl = "idle"
    /\ LET notes == notes_to_play_tuples(root_idx, mode_idx, chord_index,
                                         chord_degree_voicings[chord_index])
           midis == chord_midi_notes(notes, octave, octave_offset)
       IN /\ chord_request' = <<chord_index, octave_offset>>
          /\ midi_notes' = midis
          /\ frequencies' = chord_frequencies(midis)
          /\ voice_audio' = IF notes = <<>> THEN <<>>
                            ELSE render_voices(Len(chord_frequencies(midis)))
          /\ play_audio_data(chord_audio_data(notes))
    /\ lastOp' = chord_request_kind(chord_index)
    /\ UNCHANGED <<root_idx, mode_idx, octave, chord_degree_voicings,
                   voice_controls, synthvars, mixvars, presetvars>>

\* _update_per_degree_voicing(degree_index, tone_key, state): the check box of
\* a tone is toggled
UpdatePerDegreeVoicing(degree_index, tone_key) ==
    /\ ctl = "idle"
    /\ chord_degree_voicings' =
          [chord_degree_voicings EXCEPT ![degree_index][tone_key] = ~@]
    /\ lastOp' = "toggle_voicing"
    /\ UNCHANGED <<playvars, root_idx, mode_idx, octave, voice_controls,
                   chord_request, midi_notes, frequencies, othervars>>

\* the Enable check box of a voice is toggled
ToggleVoiceEnable(i) ==
    /\ ctl = "idle"
    /\ voice_controls' = [voice_controls EXCEPT ![i].enable = ~@]
    /\ lastOp' = "toggle_voice"
    /\ UNCHANGED <<playvars, root_idx, mode_idx, octave, chord_degree_voicings,
                   chord_request, midi_notes, frequencies, othervars>>

(***************************************************************************)
(* The playback engine                                                     *)
(***************************************************************************)
Init == PlayInit /\ UIInit /\ lastOp = "init"

Next ==
    \/ Play
    \/ PlayJoinReturn
    \/ SetInterruptionFade
    \/ CloseEvent
    \/ CloseJoinReturn
    \/ Open \/ StartStream \/ Loop \/ Abort \/ FadeWrite
    \/ Write \/ Emit \/ Finally \/ StopStream \/ Close

Spec == Init /\ [][Next]_vars

PlayShort == PlayFrom(ShortAudioLists)

SetShortFade == SetInterruptionFadeTo(ShortFadeValues)

FairNext ==
    \/ PlayShort
    \/ PlayJoinReturn
    \/ SetShortFade
    \/ CloseEvent
    \/ CloseJoinReturn
    \/ Open \/ StartStream \/ Loop \/ Abort \/ FadeWrite
    \/ Write \/ Emit \/ Finally \/ StopStream \/ Close

\* every thread that can take a step eventually does; a join() whose thread
\* has ended, or whose timeout has run out, returns
FairSpec ==
    /\ Init
    /\ [][FairNext]_vars
    /\ WF_vars(WorkerStep)
    /\ WF_vars(PlayJoinReturn)
    /\ WF_vars(CloseJoinReturn)

(***************************************************************************)
(* The pitch resolver: play_chord for every position of the root dial, the *)
(* mode dial and the octave spin box, with the four voices disabled        *)
(***************************************************************************)
\* voicings (the same for every degree) the resolver is run with
VoicingsTried ==
    {DefaultVoicing, [t \in Tones |-> TRUE]}

AllVoicesOff == [i \in Voices |-> [DEFAULT_PRESET[i] EXCEPT !.enable = FALSE]]

TheoryInit ==
    /\ PlayInit
    /\ root_idx \in NoteIdx
    /\ mode_idx \in ModeIdx
    /\ octave \in OctaveRange
    /\ \E v \in VoicingsTried : chord_degree_voicings = [d \in ChordIdx |-> v]
    /\ voice_controls = AllVoicesOff
    /\ chord_request = <<>>
    /\ midi_notes = <<>>
    /\ frequencies = <<>>
    /\ OtherInit
    /\ lastOp = "init"

PlayAnyChord == \E d \in ChordIdx, off \in OctaveOffsets : PlayChord(d, off)

TheoryNext == PlayAnyChord

SpecTheory == TheoryInit /\ [][TheoryNext]_vars

\* the resolver run with dense voicings: every tone, and the root with the
\* seventh and the three tones that are raised by an octave
ExtendedVoicing == [t \in Tones |-> t \in {1, 7, 9, 11, 13}]

DenseVoicings == {[t \in Tones |-> TRUE], ExtendedVoicing}

VoicingInit ==
    /\ PlayInit
    /\ root_idx \in NoteIdx
    /\ mode_idx \in ModeIdx
    /\ octave \in OctaveRange
    /\ \E v \in DenseVoicings : chord_degree_voicings = [d \in ChordIdx |-> v]
    /\ voice_controls = AllVoicesOff
    /\ chord_request = <<>>
    /\ midi_notes = <<>>
    /\ frequencies = <<>>
    /\ OtherInit
    /\ lastOp = "init"

\* one chord request per run
ResolveOnce == lastOp = "init" /\ PlayAnyChord

SpecVoicing == VoicingInit /\ [][ResolveOnce]_vars

(***************************************************************************)
(* generate_waveform (utils/audio_utils.py).  Times are given in ms and    *)
(* passed as ms / 1000.0, the volume in percent and passed as v / 100.0.   *)
(* The returned buffer is described by its length, by the range            *)
(* start..stop-1 of the samples that the sound was written to (all other   *)
(* samples are the zeros of np.zeros), and by the lengths of the fades of  *)
(* the envelope.  The envelope itself is described by the slice            *)
(* assignments made to the array of ones, in the order they are made: each *)
(* writes the values of one half-cosine curve to the indices lo..hi-1.     *)
(***************************************************************************)
WaveformTypes == {"Sine", "Square", "Sawtooth", "Triangle", "Noise"}

WaveformArgs ==
    [duration : {0, 7, 100, 107, 250}, delay : {0, 100, 107, 300},
     fade_in : {0, 5, 20, 500}, fade_out : {0, 5, 50, 500},
     waveform_type : WaveformTypes, volume : {0, 50, 100}]

\* a buffer of total samples that the sound was not written to
silence(total, a) ==
    [len |-> total, start |-> 0, stop |-> 0, fade_in |-> 0, fade_out |-> 0,
     sound_samples |-> 0, envelope |-> <<>>,
     waveform_type |-> a.waveform_type, volume |-> a.volume]

\* generate_waveform taking no account of its argument delay
\* envelope[:fade_in_samples] = fade_in_curve, when the fade is applied
fade_in_write(fade_in_samples, sound_samples) ==
    IF fade_in_samples > 0 /\ fade_in_samples < sound_samples
    THEN <<[curve |-> "fade_in", lo |-> 0, hi |-> fade_in_samples]>>
    ELSE <<>>

\* envelope[sound_samples - fade_out_samples:] = fade_out_curve, when the
\* fade is applied
fade_out_write(fade_out_samples, sound_samples) ==
    IF fade_out_samples > 0 /\ fade_out_samples < sound_samples
    THEN <<[curve |-> "fade_out", lo |-> sound_samples - fade_out_samples,
            hi |-> sound_samples]>>
    ELSE <<>>

\* the envelope with the fade-in written after the fade-out
envelope_writes_fade_in_last(fi, fo, sound_samples) ==
    fade_out_write(fo, sound_samples) \o fade_in_write(fi, sound_samples)

\* lines 72-85: the fade-in is written first, the fade-out second
envelope_writes(fi, fo, sound_samples) ==
    fade_in_write(fi, sound_samples) \o fade_out_write(fo, sound_samples)

\* the value of the envelope at index i: the k-th of the n points of the
\* curve that was written there last, or the 1.0 of np.ones_like
envelope_at(s, i) ==
    LET W    == s.envelope
        hits == {j \in 1..Len(W) : W[j].lo <= i /\ i < W[j].hi}
    IN IF hits = {} THEN [curve |-> "ones", k |-> 0, n |-> 0]
       ELSE LET j == CHOOSE x \in hits : \A y \in hits : y <= x
            IN [curve |-> W[j].curve, k |-> i - W[j].lo,
                n |-> W[j].hi - W[j].lo]

generate_waveform_undelayed(a) ==
    LET total_samples == samples_of_ms(a.duration)
        fi == samples_of_ms(a.fade_in)
        fo == samples_of_ms(a.fade_out)
    IN IF total_samples <= 0 THEN silence(0, a)
       ELSE [len |-> total_samples, start |-> 0, stop |-> total_samples,
             fade_in |-> IF fi > 0 /\ fi < total_samples THEN fi ELSE 0,
             fade_out |-> IF fo > 0 /\ fo < total_samples THEN fo ELSE 0,
             sound_samples |-> total_samples,
             envelope |-> envelope_writes(fi, fo, total_samples),
             waveform_type |-> a.waveform_type, volume |-> a.volume]

generate_waveform(a) ==
    LET total_samples == samples_of_ms(a.duration)
        delay_samples == samples_of_ms(a.delay)
        \* duration - delay <= 0 on the doubles ms / 1000.0
        silent        == a.duration <= a.delay
        sound_samples ==
            DblToInt(DblMulNat(DblSub(DblDiv(a.duration, 1000),
                                      DblDiv(a.delay, 1000)), sample_rate))
        fi == samples_of_ms(a.fade_in)
        fo == samples_of_ms(a.fade_out)
    IN IF total_samples <= 0 THEN silence(0, a)
       ELSE IF silent THEN silence(total_samples, a)
       ELSE IF ~(delay_samples < total_samples) THEN silence(total_samples, a)
       ELSE [len |-> total_samples,
             start |-> delay_samples,
             stop |-> delay_samples
                        + Min(sound_samples, total_samples - delay_samples),
             fade_in |-> IF fi > 0 /\ fi < sound_samples THEN fi ELSE 0,
             fade_out |-> IF fo > 0 /\ fo < sound_samples THEN fo ELSE 0,
             sound_samples |-> sound_samples,
             envelope |-> envelope_writes(fi, fo, sound_samples),
             waveform_type |-> a.waveform_type, volume |-> a.volume]

SynthInit ==
    /\ PlayInit
    /\ root_idx = 0
    /\ mode_idx = 0
    /\ octave = 4
    /\ chord_degree_voicings = [d \in ChordIdx |-> DefaultVoicing]
    /\ voice_controls = DEFAULT_PRESET
    /\ chord_request = <<>>
    /\ midi_notes = <<>>
    /\ frequencies = <<>>
    /\ voice_audio = <<>>
    /\ waveform_args \in WaveformArgs
    /\ samples = <<>>
    /\ audio_data_list = <<>>
    /\ mixed_audio = <<>>
    /\ samples_16bit = <<>>
    /\ PresetsLoaded([kind |-> "absent", value |-> NoStore])
    /\ lastOp = "init"

GenerateWaveform ==
    /\ lastOp = "init"
    /\ samples' = generate_waveform(waveform_args)
    /\ lastOp' = "generate_waveform"
    /\ UNCHANGED <<playvars, root_idx, mode_idx, octave,
                   chord_degree_voicings, voice_controls, chord_request,
                   midi_notes, frequencies, voice_audio, waveform_args,
                   mixvars, presetvars>>

SpecSynth == SynthInit /\ [][GenerateWaveform]_vars

(***************************************************************************)
(* The mixer of _play_audio_data (lines 899-913) on buffers given with     *)
(* their samples.  A sample of a given buffer is a whole number of eighths *)
(* (k stands for k / 8.0), so that the sums of line 906 are exact; a       *)
(* sample of mixed_audio is a sign and the double of its magnitude.        *)
(***************************************************************************)
SampleValues == {-9, -3, 0, 4, 8}

MixBuffers == UNION {[1..n -> SampleValues] : n \in 0..2}

MixLists == UNION {[1..n -> MixBuffers] : n \in 1..2}

Abs(k) == IF k < 0 THEN 0 - k ELSE k

buffer_lens(list) == [i \in 1..Len(list) |-> Len(list[i])]

\* lines 900-906: the sum of the buffers, each padded with zeros to max_len
RECURSIVE SumAt(_, _, _)
SumAt(list, n, i) ==
    IF n = 0 THEN 0
    ELSE SumAt(list, n - 1, i)
         + (IF i <= Len(list[n]) THEN list[n][i] ELSE 0)

padded_sum(list) ==
    [i \in 1..max_len(buffer_lens(list)) |-> SumAt(list, Len(list), i)]

\* line 909: np.max(np.abs(mixed_audio)), in eighths
RECURSIVE max_abs_val(_)
max_abs_val(sum) ==
    IF sum = <<>> THEN 0
    ELSE Max(Abs(sum[Len(sum)]), max_abs_val(SubSeq(sum, 1, Len(sum) - 1)))

\* the mix divided by its peak whenever the peak is not zero
normalised_always(sum) ==
    LET peak == max_abs_val(sum)
    IN [i \in 1..Len(sum) |->
          [neg |-> sum[i] < 0,
           abs |-> IF peak > 0 THEN DblDiv(Abs(sum[i]), peak)
                   ELSE DblDiv(Abs(sum[i]), 8)]]

\* the mix left as summed
normalised_never(sum) ==
    [i \in 1..Len(sum) |-> [neg |-> sum[i] < 0, abs |-> DblDiv(Abs(sum[i]), 8)]]

\* lines 909-910: the quotient of the doubles k/8 and peak/8 is the
\* correctly rounded k/peak; a sample left alone is the double k/8
normalised(sum) ==
    LET peak == max_abs_val(sum)
    IN [i \in 1..Len(sum) |->
          [neg |-> sum[i] < 0,
           abs |-> IF peak > 8 THEN DblDiv(Abs(sum[i]), peak)
                   ELSE DblDiv(Abs(sum[i]), 8)]]

\* astype(np.int16) of a whole number: kept modulo 2^16
to_int16(v) == ((v + 32768) % 65536) - 32768

\* line 913: (mixed_audio * 32767).astype(np.int16) drops the fraction
pcm16(mixed) ==
    [i \in 1..Len(mixed) |->
        LET v == DblToInt(DblMulNat(mixed[i].abs, 32767))
        IN to_int16(IF mixed[i].neg THEN 0 - v ELSE v)]

MixInit ==
    /\ PlayInit
    /\ root_idx = 0
    /\ mode_idx = 0
    /\ octave = 4
    /\ chord_degree_voicings = [d \in ChordIdx |-> DefaultVoicing]
    /\ voice_controls = DEFAULT_PRESET
    /\ chord_request = <<>>
    /\ midi_notes = <<>>
    /\ frequencies = <<>>
    /\ voice_audio = <<>>
    /\ waveform_args = <<>>
    /\ samples = <<>>
    /\ audio_data_list \in MixLists
    /\ mixed_audio = <<>>
    /\ samples_16bit = <<>>
    /\ PresetsLoaded([kind |-> "absent", value |-> NoStore])
    /\ lastOp = "init"

\* _play_audio_data(audio_data_list), up to its return or to the join()
PlayBuffers ==
    /\ ctl = "idle"
    /\ LET lens == buffer_lens(audio_data_list)
       IN /\ play_audio_data(lens)
          /\ IF NoAudio(lens)
             THEN UNCHANGED <<mixed_audio, samples_16bit>>
             ELSE LET mixed == normalised(padded_sum(audio_data_list))
                  IN /\ mixed_audio' = mixed
                     /\ samples_16bit' = pcm16(mixed)
          /\ lastOp' = IF NoAudio(lens) THEN "play_nothing" ELSE "play"
    /\ UNCHANGED <<root_idx, mode_idx, octave, chord_degree_voicings,
                   voice_controls, chord_request, midi_notes, frequencies,
                   voice_audio, synthvars, audio_data_list, presetvars>>

\* the requests alone: what the mixer computes does not depend on how far
\* the playback thread has got
SpecMix == MixInit /\ [][PlayBuffers]_vars

(***************************************************************************)
(* The preset store built from every kind of presets.json, under save,     *)
(* delete, reset and listing calls                                         *)
(***************************************************************************)
PresetNames == {"Default", "Bright", "Mine"}

\* presets.json before the program starts: missing, not JSON, or the JSON of
\* an object, of an array of strings or of null
PresetFiles ==
    {[kind |-> k, value |-> NoStore] : k \in {"absent", "invalid"}}
    \cup {[kind |-> "json", value |-> [type |-> "dict", items |-> it]] :
             it \in { <<>>, << <<"Mine", "custom">> >>,
                      << <<"Default", "custom">> >>,
                      << <<"Mine", "custom">>,
                         <<"Default", "DEFAULT_PRESET">> >> }}
    \cup {[kind |-> "json", value |-> [type |-> "list", items |-> it]] :
             it \in { <<>>, << <<"Default", "">> >>,
                      << <<"Mine", "">>, <<"Default", "">> >> }}
    \cup {[kind |-> "json", value |-> [type |-> "null", items |-> <<>>]]}

PresetInit ==
    /\ PlayInit
    /\ root_idx = 0
    /\ mode_idx = 0
    /\ octave = 4
    /\ chord_degree_voicings = [d \in ChordIdx |-> DefaultVoicing]
    /\ voice_controls = DEFAULT_PRESET
    /\ chord_request = <<>>
    /\ midi_notes = <<>>
    /\ frequencies = <<>>
    /\ voice_audio = <<>>
    /\ waveform_args = <<>>
    /\ samples = <<>>
    /\ audio_data_list = <<>>
    /\ mixed_audio = <<>>
    /\ samples_16bit = <<>>
    /\ \E file \in PresetFiles : PresetsLoaded(file)
    /\ lastOp = "init"

\* a call on the PresetManager that leaves the store as new_presets; saved
\* tells that it went through _save_presets, whose IOError is only printed
preset_call_returns(op, name, new_presets, saved, ret, names) ==
    /\ preset_call.op # "init_raised"
    /\ presets' = new_presets
    /\ \/ /\ saved
          /\ presets_file' = [kind |-> "json", value |-> new_presets]
       \/ UNCHANGED presets_file
    /\ preset_call' = [op |-> op, name |-> name, before |-> presets,
                       ret |-> ret, names |-> names]
    /\ lastOp' = "preset_call"
    /\ UNCHANGED <<playvars, root_idx, mode_idx, octave,
                   chord_degree_voicings, voice_controls, chord_request,
                   midi_notes, frequencies, voice_audio, synthvars, mixvars,
                   datavars>>

\* save_preset(name, preset_data)
SavePreset ==
    \E name \in PresetNames :
       IF presets.type = "dict"
       THEN preset_call_returns("save", name,
               [presets EXCEPT !.items = dict_set(@, name, "custom")],
               TRUE, "None", <<>>)
       ELSE preset_call_returns("save", name, presets, FALSE, "TypeError",
                                <<>>)

\* delete_preset(name)
DeletePreset ==
    \E name \in PresetNames \cup {"Soft"} :
       IF contains(presets, name) /\ name # "Default"
       THEN IF presets.type = "dict"
            THEN preset_call_returns("delete", name,
                    [presets EXCEPT !.items = dict_del(@, name)],
                    TRUE, "True", <<>>)
            ELSE preset_call_returns("delete", name, presets, FALSE,
                                     "TypeError", <<>>)
       ELSE preset_call_returns("delete", name, presets, FALSE, "False",
                                <<>>)

\* reset_preset(name)
ResetPreset ==
    \E name \in PresetNames :
       IF name = "Default" \/ name \in PRESET_TEMPLATES
       THEN IF presets.type = "dict"
            THEN preset_call_returns("reset", name,
                    [presets EXCEPT !.items =
                        dict_set(@, name, IF name = "Default"
                                          THEN "DEFAULT_PRESET" ELSE name)],
                    TRUE, "True", <<>>)
            ELSE preset_call_returns("reset", name, presets, FALSE,
                                     "TypeError", <<>>)
       ELSE preset_call_returns("reset", name, presets, FALSE, "False",
                                <<>>)

\* get_preset_names()
GetPresetNames ==
    IF presets.type = "dict"
    THEN preset_call_returns("names", "", presets, FALSE, "list",
                             get_preset_names(presets))
    ELSE preset_call_returns("names", "", presets, FALSE, "AttributeError",
                             <<>>)

SpecPresets ==
    PresetInit
    /\ [][SavePreset \/ DeletePreset \/ ResetPreset \/ GetPresetNames]_vars

(***************************************************************************)
(* Rendering: chord requests with only the first voice enabled, for each   *)
(* of its durations and delays                                             *)
(***************************************************************************)
RenderVoices(duration_ms, delay_ms) ==
    [i \in Voices |->
        IF i = 1
        THEN [DEFAULT_PRESET[i] EXCEPT !.duration = duration_ms,
                                       !.delay = delay_ms]
        ELSE [DEFAULT_PRESET[i] EXCEPT !.enable = FALSE]]

RenderInit ==
    /\ PlayInit
    /\ root_idx = 0
    /\ mode_idx = 0
    /\ octave = 4
    /\ chord_degree_voicings = [d \in ChordIdx |-> DefaultVoicing]
    /\ \E du \in RenderDurations, de \in RenderDelays :
          voice_controls = RenderVoices(du, de)
    /\ chord_request = <<>>
    /\ midi_notes = <<>>
    /\ frequencies = <<>>
    /\ OtherInit
    /\ lastOp = "init"

PlayFirstChord == PlayChord(0, 0)

RenderNext ==
    \/ PlayFirstChord
    \/ PlayJoinReturn
    \/ Open \/ StartStream \/ Loop \/ Abort \/ FadeWrite
    \/ Write \/ Emit \/ Finally \/ StopStream \/ Close

SpecRender == RenderInit /\ [][RenderNext]_vars

(***************************************************************************)
(* Seventh chords: play_chord in octave 4 for every root and mode, with    *)
(* the tones 1, 3, 5 and 7 of every degree enabled and the voices disabled *)
(***************************************************************************)
SeventhVoicing == [t \in Tones |-> t \in {1, 3, 5, 7}]

QualityInit ==
    /\ PlayInit
    /\ root_idx \in NoteIdx
    /\ mode_idx \in ModeIdx
    /\ octave = 4
    /\ chord_degree_voicings = [d \in ChordIdx |-> SeventhVoicing]
    /\ voice_controls = AllVoicesOff
    /\ chord_request = <<>>
    /\ midi_notes = <<>>
    /\ frequencies = <<>>
    /\ OtherInit
    /\ lastOp = "init"

SpecQuality == QualityInit /\ [][TheoryNext]_vars

(***************************************************************************)
(* Chord requests against the playback engine: every voice lasts 100 ms,   *)
(* only the first voice is enabled, degree I has only its root enabled     *)
(***************************************************************************)
ShortVoices ==
    [i \in Voices |-> [DEFAULT_PRESET[i] EXCEPT !.enable = (i = 1),
                                                !.duration = 100,
                                                !.delay = 0]]

\* the chord buttons, tone boxes and Enable boxes that are pressed
ChordsTried == {0, 1}

ChordInit ==
    /\ PlayInit
    /\ root_idx = 0
    /\ mode_idx = 0
    /\ octave = 4
    /\ chord_degree_voicings =
          [d \in ChordIdx |-> IF d = 0 THEN [t \in Tones |-> t = 1]
                                       ELSE DefaultVoicing]
    /\ voice_controls = ShortVoices
    /\ chord_request = <<>>
    /\ midi_notes = <<>>
    /\ frequencies = <<>>
    /\ OtherInit
    /\ lastOp = "init"

PlayTriedChord == \E d \in ChordsTried : PlayChord(d, 0)

ToggleRootOfFirstDegree == UpdatePerDegreeVoicing(0, 1)

ToggleFirstVoice == ToggleVoiceEnable(1)

ChordNext ==
    \/ PlayTriedChord
    \/ PlayJoinReturn
    \/ ToggleRootOfFirstDegree
    \/ ToggleFirstVoice
    \/ Open \/ StartStream \/ Loop \/ Abort \/ FadeWrite
    \/ Write \/ Emit \/ Finally \/ StopStream \/ Close

SpecChord == ChordInit /\ [][ChordNext]_vars

\* the same with requests whose buffers are all empty or None, and with
\* every thread that can take a step eventually taking it
EmptyAudioLists == {lens \in AudioLists : lens # <<>> /\ NoAudio(lens)}

PlayEmptyBuffers == PlayFrom(EmptyAudioLists)

\* degree I has no tone enabled, the other degrees have their triad
SilenceInit ==
    /\ PlayInit
    /\ root_idx = 0
    /\ mode_idx = 0
    /\ octave = 4
    /\ chord_degree_voicings =
          [d \in ChordIdx |-> IF d = 0 THEN [t \in Tones |-> FALSE]
                                       ELSE DefaultVoicing]
    /\ voice_controls = ShortVoices
    /\ chord_request = <<>>
    /\ midi_notes = <<>>
    /\ frequencies = <<>>
    /\ OtherInit
    /\ lastOp = "init"

SilenceNext ==
    \/ PlayTriedChord
    \/ PlayEmptyBuffers
    \/ PlayJoinReturn
    \/ ToggleFirstVoice
    \/ Open \/ StartStream \/ Loop \/ Abort \/ FadeWrite
    \/ Write \/ Emit \/ Finally \/ StopStream \/ Close

SpecSilence ==
    /\ SilenceInit
    /\ [][SilenceNext]_vars
    /\ WF_vars(WorkerStep)
    /\ WF_vars(PlayJoinReturn)

(***************************************************************************)
(* The preset store with its settings as Python objects.  A settings list  *)
(* is the sequence of the addresses of its dicts in the heap: list.copy()  *)
(* makes a new list of the same addresses.  The file holds JSON: the dicts *)
(* by value, a bool as the literal true or false.                          *)
(***************************************************************************)
template_settings ==
    << [enable |-> TRUE, volume |-> 60, duration |-> 1000, delay |-> 0,
        fade_in |-> 50, fade_out |-> 200],
       [enable |-> TRUE, volume |-> 15, duration |-> 800, delay |-> 50,
        fade_in |-> 100, fade_out |-> 300],
       [enable |-> TRUE, volume |-> 20, duration |-> 900, delay |-> 25,
        fade_in |-> 75, fade_out |-> 250],
       [enable |-> TRUE, volume |-> 40, duration |-> 1200, delay |-> 10,
        fade_in |-> 150, fade_out |-> 400],
       [enable |-> TRUE, volume |-> 50, duration |-> 2000, delay |-> 0,
        fade_in |-> 500, fade_out |-> 1000],
       [enable |-> FALSE, volume |-> 0, duration |-> 1000, delay |-> 0,
        fade_in |-> 200, fade_out |-> 500],
       [enable |-> FALSE, volume |-> 0, duration |-> 1000, delay |-> 0,
        fade_in |-> 200, fade_out |-> 500],
       [enable |-> TRUE, volume |-> 30, duration |-> 2500, delay |-> 100,
        fade_in |-> 600, fade_out |-> 1200],
       [enable |-> TRUE, volume |-> 30, duration |-> 800, delay |-> 0,
        fade_in |-> 10, fade_out |-> 400],
       [enable |-> TRUE, volume |-> 25, duration |-> 600, delay |-> 0,
        fade_in |-> 5, fade_out |-> 200],
       [enable |-> TRUE, volume |-> 20, duration |-> 700, delay |-> 0,
        fade_in |-> 5, fade_out |-> 300],
       [enable |-> TRUE, volume |-> 15, duration |-> 900, delay |-> 0,
        fade_in |-> 20, fade_out |-> 500] >>

\* the dicts of DEFAULT_PRESET (addresses 1..4) and of PRESET_TEMPLATES
\* "Bright", "Soft" and "Punchy" (5..8, 9..12, 13..16) as the module makes them
module_heap == DEFAULT_PRESET \o template_settings

\* the list bound to a built-in name: DEFAULT_PRESET or PRESET_TEMPLATES[name]
builtin_list(name) ==
    LET k == CASE name = "Default" -> 0 [] name = "Bright" -> 4
               [] name = "Soft" -> 8 [] name = "Punchy" -> 12
    IN [i \in Voices |-> k + i]

\* the settings of a list, dict by dict
value_of(h, list) == [i \in 1..Len(list) |-> h[list[i]]]

\* a dump that writes every voice as enabled
json_of_voice_enabled(d) ==
    [enable |-> "true", volume |-> d.volume, duration |-> d.duration,
     delay |-> d.delay, fade_in |-> d.fade_in, fade_out |-> d.fade_out]

\* json.dump of a dict of voice settings, and json.load of what it wrote
json_of_voice(d) ==
    [enable |-> IF d.enable THEN "true" ELSE "false", volume |-> d.volume,
     duration |-> d.duration, delay |-> d.delay, fade_in |-> d.fade_in,
     fade_out |-> d.fade_out]

voice_of_json(j) ==
    [enable |-> j.enable = "true", volume |-> j.volume,
     duration |-> j.duration, delay |-> j.delay, fade_in |-> j.fade_in,
     fade_out |-> j.fade_out]

\* json.dump(self.presets, f)
json_dump(store, h) ==
    [kind |-> "json",
     value |-> [type |-> store.type,
                items |-> [i \in 1..Len(store.items) |->
                             <<store.items[i][1],
                               [k \in 1..Len(store.items[i][2]) |->
                                   json_of_voice(h[store.items[i][2][k]])]>>]]]

\* d[name] for a key of the dict
lookup(store, name) ==
    store.items[CHOOSE i \in 1..Len(store.items) : store.items[i][1] = name][2]

\* get_preset(name): a copy of the stored list, or of DEFAULT_PRESET
get_preset(store, name) ==
    IF contains(store, name) THEN lookup(store, name)
    ELSE builtin_list("Default")

\* the store of lines 64-70
initial_store ==
    [type |-> "dict",
     items |-> [i \in 1..4 |->
                  LET name == <<"Default", "Bright", "Soft", "Punchy">>[i]
                  IN <<name, builtin_list(name)>>]]

\* the store is changed to new_store and dumped by _save_presets (the write
\* succeeds)
store_saved(new_store, new_heap) ==
    /\ presets' = new_store
    /\ presets_file' = json_dump(new_store, new_heap)

data_call(op, name) ==
    /\ preset_call' = [op |-> op, name |-> name]
    /\ lastOp' = op
    /\ UNCHANGED <<playvars, root_idx, mode_idx, octave,
                   chord_degree_voicings, chord_request, midi_notes,
                   frequencies, voice_audio, synthvars, mixvars>>

\* the most save_preset calls made with settings read from the controls
MaxSaves == 1

DataNames == {"Bright", "Mine"}

NotSaved == [name \in DataNames |-> <<>>]

\* the program started with no presets.json
DataInit ==
    /\ PlayInit
    /\ root_idx = 0
    /\ mode_idx = 0
    /\ octave = 4
    /\ chord_degree_voicings = [d \in ChordIdx |-> DefaultVoicing]
    /\ voice_controls = DEFAULT_PRESET
    /\ chord_request = <<>>
    /\ midi_notes = <<>>
    /\ frequencies = <<>>
    /\ voice_audio = <<>>
    /\ waveform_args = <<>>
    /\ samples = <<>>
    /\ audio_data_list = <<>>
    /\ mixed_audio = <<>>
    /\ samples_16bit = <<>>
    /\ presets = initial_store
    /\ presets_file = json_dump(initial_store, module_heap)
    /\ preset_call = [op |-> "init", name |-> ""]
    /\ heap = module_heap
    /\ held = <<>>
    /\ last_saved = NotSaved
    /\ lastOp = "init"

\* save_preset_dialog: save_preset(name, self._get_current_settings_as_preset())
SaveCurrent ==
    \E name \in DataNames :
       /\ Len(heap) < Len(module_heap) + Cardinality(Voices) * MaxSaves
       /\ LET current_settings == [i \in Voices |-> Len(heap) + i]
              new_heap == heap \o voice_controls
          IN /\ heap' = new_heap
             /\ held' = current_settings
             /\ store_saved([presets EXCEPT !.items =
                               dict_set(@, name, current_settings)], new_heap)
             /\ last_saved' = [last_saved EXCEPT ![name] = voice_controls]
       /\ data_call("save", name)
       /\ UNCHANGED voice_controls

\* new_preset_dialog: the controls take DEFAULT_PRESET, which is then saved
NewPreset ==
    \E name \in DataNames :
       /\ ~contains(presets, name)
       /\ voice_controls' = value_of(heap, builtin_list("Default"))
       /\ held' = builtin_list("Default")
       /\ store_saved([presets EXCEPT !.items =
                         dict_set(@, name, builtin_list("Default"))], heap)
       /\ last_saved' = [last_saved EXCEPT
                            ![name] = value_of(heap, builtin_list("Default"))]
       /\ data_call("save", name)
       /\ UNCHANGED heap

\* a load_preset that keeps the default it fell back to under the name
LoadPreset_keeping ==
    \E name \in DataNames :
       /\ held' = get_preset(presets, name)
       /\ voice_controls' = value_of(heap, get_preset(presets, name))
       /\ data_call("get", name)
       /\ store_saved([presets EXCEPT !.items =
                         dict_set(@, name, get_preset(presets, name))], heap)
       /\ UNCHANGED <<heap, last_saved>>

\* load_preset: get_preset(preset_name), then _apply_preset
LoadPreset ==
    \E name \in DataNames :
       /\ held' = get_preset(presets, name)
       /\ voice_controls' = value_of(heap, get_preset(presets, name))
       /\ data_call("get", name)
       /\ UNCHANGED <<presets, presets_file, heap, last_saved>>

\* delete_preset(name) on the dict
DeleteStored ==
    \E name \in DataNames :
       /\ contains(presets, name)
       /\ name # "Default"
       /\ store_saved([presets EXCEPT !.items = dict_del(@, name)], heap)
       /\ last_saved' = [last_saved EXCEPT ![name] = <<>>]
       /\ data_call("delete", name)
       /\ UNCHANGED <<voice_controls, heap, held>>

\* reset_preset(name) of a built-in name
ResetBuiltin ==
    \E name \in DataNames \cap PRESET_TEMPLATES :
       /\ store_saved([presets EXCEPT !.items =
                         dict_set(@, name, builtin_list(name))], heap)
       /\ last_saved' = [last_saved EXCEPT ![name] = <<>>]
       /\ data_call("reset", name)
       /\ UNCHANGED <<voice_controls, heap, held>>

\* the program is started again: the module's dicts are made anew and
\* _load_presets reads presets.json, each dict of the file a new dict
Restart ==
    /\ lastOp # "restart"
    /\ LET file == presets_file.value
           loaded == [i \in 1..Len(file.items) |->
                        <<file.items[i][1],
                          [k \in 1..Len(file.items[i][2]) |->
                              Len(module_heap) + Cardinality(Voices) * (i - 1) + k]>>]
           dicts(i) == [k \in 1..Len(file.items[i][2]) |->
                           voice_of_json(file.items[i][2][k])]
           RECURSIVE all_dicts(_)
           all_dicts(n) == IF n = 0 THEN <<>>
                           ELSE all_dicts(n - 1) \o dicts(n)
       IN /\ heap' = module_heap \o all_dicts(Len(file.items))
          /\ presets' = [type |-> "dict", items |-> loaded]
    /\ voice_controls' = DEFAULT_PRESET
    /\ held' = <<>>
    /\ data_call("restart", "")
    /\ UNCHANGED <<presets_file, last_saved>>

\* the caller changes a field of the first dict of the list it holds
ModifyHeld ==
    /\ held # <<>>
    /\ heap[held[1]].volume # 0
    /\ heap' = [heap EXCEPT ![held[1]].volume = 0]
    /\ data_call("modify", "")
    /\ UNCHANGED <<voice_controls, presets, presets_file, held, last_saved>>

DataNext ==
    \/ SaveCurrent \/ NewPreset \/ LoadPreset \/ DeleteStored
    \/ ResetBuiltin \/ Restart \/ ToggleFirstVoice

SpecPresetData == DataInit /\ [][DataNext]_vars

\* a caller that saves, gets and modifies what it holds
SpecPresetCaller ==
    DataInit /\ [][SaveCurrent \/ NewPreset \/ LoadPreset \/ ModifyHeld]_vars

(***************************************************************************)
(* Observations on the playback engine                                     *)
(***************************************************************************)
AliveWorkers == {s \in Sessions : is_alive(s)}

\* streams that were opened and not closed
OpenStreams == {s \in Sessions : stream[s] \in {"active", "stopped"}}

IsFade(w) == w.kind = "fade"

IsNormal(w) == w.kind = "normal"

FadeWrites(s) == SelectSeq(writes[s], IsFade)

NormalWrites(s) == SelectSeq(writes[s], IsNormal)

\* the writes in seq cover lo..hi-1 once, in order, in chunks of 1..512
Contiguous(seq, lo, hi) ==
    /\ (seq = <<>>) = (lo = hi)
    /\ \A i \in 1..Len(seq) :
          /\ seq[i].lo = (IF i = 1 THEN lo ELSE seq[i - 1].hi)
          /\ seq[i].hi > seq[i].lo
          /\ seq[i].hi - seq[i].lo <= chunk_size_samples
    /\ seq # <<>> => seq[Len(seq)].hi = hi

\* the state of a playback request in the terms of the state machine
SessionState(s) ==
    LET w == worker[s]
    IN CASE w.pc = "unborn" -> "None"
         [] w.pc \in {"open", "start_stream"} -> "Idle"
         [] w.pc \in {"loop", "write", "emit"} -> "Streaming"
         [] w.pc \in {"abort", "fade_write"} -> "Aborting"
         [] w.exit = "complete" -> "Completed"
         [] w.exit = "abort" -> "FadedStop"
         [] OTHER -> "Failed"

\* C1: at most one worker is alive and at most one stream is open at any
\* time, and when a session has written to the device every earlier session
\* has ended with its stream closed
C1_OneWorkerOneStream ==
    /\ Cardinality(AliveWorkers) <= 1
    /\ Cardinality(OpenStreams) <= 1
    /\ \A s, t \in Sessions :
          (s < t /\ writes[t] # <<>>)
             => (~is_alive(s) /\ stream[s] \in {"none", "closed"})

\* C2: a worker that saw the abort flag at offset o with fade F ms writes
\* exactly min(floor(F * sample_rate / 1000), N - o) faded samples, those of
\* buffer positions o.., in chunks of at most 512, and nothing else after
C2_FadeWindowExact ==
    \A s \in Sessions :
       worker[s].exit = "abort" =>
          LET o == worker[s].abort_at
              k == Min((worker[s].fade_ms * sample_rate) \div 1000,
                       worker[s].N - o)
          IN /\ Contiguous(FadeWrites(s), o, o + k)
             /\ Contiguous(NormalWrites(s), 0, o)
             /\ writes[s] = NormalWrites(s) \o FadeWrites(s)

\* C3: after the abort flag is raised a streaming worker ends, having
\* written at most one more normal chunk and at most floor(F * sample_rate /
\* 1000) faded samples
C3_AbortBounded ==
    /\ [](\A s \in Sessions :
             /\ worker[s].late <= chunk_size_samples
             /\ worker[s].fade_ms >= 0 =>
                   /\ worker[s].fade_len
                         <= (worker[s].fade_ms * sample_rate) \div 1000
                   /\ \A i \in 1..Len(writes[s]) :
                         IsFade(writes[s][i]) =>
                            writes[s][i].hi
                               <= worker[s].abort_at + worker[s].fade_len)
    /\ \A s \in Sessions :
          (abort_audio_flag /\ is_alive(s)) ~> ~is_alive(s)

C3_Witness ==
    \E s \in Sessions :
       /\ worker[s].pc = "done"
       /\ worker[s].exit = "abort"
       /\ worker[s].late > 0
       /\ worker[s].fade_ms = 1
       /\ worker[s].fade_len = 44
       /\ FadeWrites(s) # <<>>

\* C4: the chunk events of a session are its normally written chunks, in
\* buffer order, each published after its write and before the next write,
\* and none covers a part of the faded tail
C4_ChunkEvents ==
    \A s \in Sessions :
       LET nw == NormalWrites(s)
           ev == events[s]
       IN /\ Len(ev) <= Len(nw)
          /\ Len(nw) <= Len(ev) + 1
          /\ Len(nw) = Len(ev) + 1 => worker[s].pc = "emit"
          /\ \A i \in 1..Len(ev) :
                /\ ev[i].lo = nw[i].lo
                /\ ev[i].hi = nw[i].hi
                /\ i > 1 => ev[i].lo = ev[i - 1].hi
          /\ \A i \in 1..Len(ev) : \A j \in 1..Len(writes[s]) :
                IsFade(writes[s][j]) => ev[i].hi <= writes[s][j].lo

C4_Witness ==
    \E s \in Sessions :
       /\ worker[s].pc = "done"
       /\ Len(events[s]) >= 2
       /\ FadeWrites(s) # <<>>

\* C5: a worker that has ended has left no stream that it opened unclosed
C5_StreamsClosed ==
    \A s \in Sessions : ~is_alive(s) => stream[s] \in {"none", "closed"}

\* C6: a device call that raises never leaves the worker with an uncaught
\* exception: the worker ends, and a play request waiting for it goes on to
\* start its session
C6_FailuresContained ==
    /\ [](\A s \in Sessions : worker[s].pc # "crashed")
    /\ \A s \in Sessions : (worker[s].faulted /\ is_alive(s)) ~> ~is_alive(s)
    /\ (ctl = "play_join") ~> (ctl = "idle" /\ lastOp = "play")

C6_Witness ==
    /\ nfaults > 0
    /\ \E s \in Sessions :
          /\ s > 1
          /\ ~worker[s].faulted
          /\ worker[s].exit = "complete"
          /\ worker[s].pc = "done"
          /\ \E t \in Sessions : t < s /\ stream[t] # "closed"

\* a chord request made while no tone of its degree, or no voice, is enabled
SilentChordRequest ==
    \E d \in ChordIdx, off \in OctaveOffsets :
        /\ chord_request_kind(d) # "play_chord"
        /\ PlayChord(d, off)

\* C7: a play_chord request made while no voicing tone of the requested
\* degree is enabled, or while no voice is enabled, creates no worker thread
\* and makes no device call: the thread handle, the threads, the streams, the
\* calls made on them and the abort flag are what they were before it
C7_SilentChordNoSession ==
    [][SilentChordRequest =>
          /\ ctl' = "idle"
          /\ UNCHANGED <<audio_playback_thread, abort_audio_flag, worker,
                         stream, writes, events, nplays, pending>>]_vars

\* a request with no voice enabled returned while a session was streaming
C7_Witness ==
    /\ lastOp = "play_chord_no_voice"
    /\ \A i \in Voices : ~voice_controls[i].enable
    /\ audio_playback_thread # 0
    /\ worker[audio_playback_thread].pc = "write"
    /\ ~abort_audio_flag
    /\ \E d \in ChordsTried : \A t \in Tones : ~chord_degree_voicings[d][t]

\* C8 as stated: the device is released only once the stream of the worker
\* that teardown found alive has stopped
C8_ReleaseAfterStreamStopped ==
    [][(~pa_terminated /\ pa_terminated' /\ audio_playback_thread # 0)
          => stream[audio_playback_thread] # "active"]_vars

\* C8: teardown raises the abort flag before it waits, releases the device
\* only after the worker has ended or the bounded wait has run out, and
\* always completes
C8_Teardown ==
    /\ [](ctl = "close_join" => abort_audio_flag)
    /\ [][(~pa_terminated /\ pa_terminated' /\ audio_playback_thread # 0)
             => \/ ~is_alive(audio_playback_thread)
                \/ (ctl = "close_join" /\ abort_audio_flag /\ timed_out')]_vars
    /\ [](pa_terminated => ctl = "closed")
    /\ (ctl = "close_join") ~> (ctl = "closed" /\ pa_terminated)

C8_Witness ==
    /\ pa_terminated
    /\ ~timed_out
    /\ abort_audio_flag
    /\ audio_playback_thread # 0
    /\ worker[audio_playback_thread].exit = "abort"
    /\ stream[audio_playback_thread] = "closed"

OriginalTransitions ==
    {<<"None", "Idle">>, <<"Idle", "Streaming">>, <<"Streaming", "Completed">>,
     <<"Streaming", "Aborting">>, <<"Aborting", "FadedStop">>,
     <<"Completed", "None">>, <<"FadedStop", "None">>}

FailureTransitions ==
    {<<"Idle", "Failed">>, <<"Streaming", "Failed">>, <<"Aborting", "Failed">>,
     <<"Failed", "None">>}

Terminal == {"Completed", "FadedStop", "Failed"}

\* the session steps of C9 over a given set of transitions
SessionSteps(allowed) ==
    \A s \in Sessions :
       /\ SessionState(s)' # SessionState(s)
             => <<SessionState(s), SessionState(s)'>> \in allowed
       /\ (SessionState(s)' = "Aborting" /\ SessionState(s) # "Aborting")
             => (worker[s].pc = "loop" /\ abort_audio_flag)
       /\ SessionState(s) \in Terminal
             => (writes'[s] = writes[s] \/ SessionState(s)' = "None")

\* C9 as stated: only Idle -> Streaming -> Completed and
\* Idle -> Streaming -> Aborting -> Faded-Stop
C9_OnlyStatedTransitions == [][SessionSteps(OriginalTransitions)]_vars

\* C9: a session follows Idle -> Streaming -> Completed or Idle -> Streaming
\* -> Aborting -> Faded-Stop unless a device call raises, which takes it from
\* Idle, Streaming or Aborting straight to the cleanup; Aborting is entered
\* only at a chunk boundary with the flag set, no write follows a terminal
\* state, and every started session reaches a terminal state
C9_SessionStateMachine ==
    /\ [][SessionSteps(OriginalTransitions \cup FailureTransitions)]_vars
    /\ [](\A s \in Sessions :
             SessionState(s) = "Failed" <=>
                (worker[s].faulted /\ worker[s].exit = "error"))
    /\ \A s \in Sessions :
          (SessionState(s) \in {"Idle", "Streaming", "Aborting"})
             ~> (SessionState(s) \in Terminal \cup {"None"})

C9_Witness ==
    \E s, t \in Sessions :
       /\ SessionState(s) = "FadedStop"
       /\ worker[s].pc = "done"
       /\ FadeWrites(s) # <<>>
       /\ ctl = "play_join" /\ t = s

Ascending(seq) == \A i \in 1..(Len(seq) - 1) : seq[i] < seq[i + 1]

\* what is asked of the MIDI numbers and of the frequency list of one request
ResolvedOK(midis, freqs) ==
    /\ Ascending(freqs)
    /\ Len(freqs) <= 7
    /\ \A i \in 1..Len(midis) : midis[i] \in 0..127
    /\ {freqs[i] : i \in 1..Len(freqs)}
          = {get_frequency(midis[i]) : i \in 1..Len(midis)}

\* C10: for every root 0..11, mode, degree 0..6, octave 1..8, offset -1, 0
\* or +1 and voicing, the pitches play_chord resolves are strictly ascending
\* (so without duplicates), at most 7, they are the pitches of the MIDI
\* numbers computed, and every such MIDI number lies in 0..127
C10_ResolvedPitches ==
    /\ ResolvedOK(midi_notes, frequencies)
    /\ (lastOp = "init" /\ chord_degree_voicings[0] = DefaultVoicing) =>
          \A d \in ChordIdx, v \in [Tones -> BOOLEAN] :
             \A notes \in {notes_to_play_tuples(root_idx, mode_idx, d, v)} :
                \A off \in OctaveOffsets :
                   \A midis \in {chord_midi_notes(notes, octave, off)} :
                      \A freqs \in {chord_frequencies(midis)} :
                         ResolvedOK(midis, freqs)

\* all seven tones of B Ionian I in octave 8: the thirteenth was brought
\* down from 128 to 116, and the order of insertion is not ascending
C10_Witness ==
    /\ lastOp = "play_chord_no_voice"
    /\ root_idx = 11 /\ mode_idx = 0 /\ octave = 8
    /\ midi_notes = <<119, 111, 114, 118, 121, 124, 116>>
    /\ Len(frequencies) = 7

\* the scale steps and the octave adjustment C11 gives for each tone
StatedSteps == [t \in Tones |-> CASE t = 1 -> 0 [] t = 3 -> 2 [] t = 5 -> 4
                                  [] t = 7 -> 6 [] t = 9 -> 1 [] t = 11 -> 3
                                  [] t = 13 -> 5]

StatedOctaveAdjust == [t \in Tones |-> IF t >= 9 THEN 1 ELSE 0]

\* the MIDI number C11 states for a tone
StatedMidi(root, mode, degree, base_octave, offset, t) ==
    LET clamp == IF base_octave + offset < 0 THEN 0
                 ELSE IF base_octave + offset > 8 THEN 8
                 ELSE base_octave + offset
        pitch_class ==
            (root + MODE_INTERVALS[mode + 1][((degree + StatedSteps[t]) % 7) + 1])
            % 12
        m == 12 * (clamp + StatedOctaveAdjust[t] + 1) + pitch_class
    IN IF m > 127 THEN m - 12 ELSE m

\* the notes are those of the enabled tones, each with its stated MIDI number
MidiAsStated(root, mode, degree, base_octave, offset, voicing, notes, midis) ==
    /\ {notes[i].tone : i \in 1..Len(notes)} = {t \in Tones : voicing[t]}
    /\ Len(midis) = Len(notes)
    /\ Len(notes) = Cardinality({t \in Tones : voicing[t]})
    /\ \A i \in 1..Len(notes) :
          midis[i] = StatedMidi(root, mode, degree, base_octave, offset,
                                notes[i].tone)

\* C11: every enabled tone resolves to 12 * (clamp(octave + offset, 0, 8) +
\* adjust + 1) + ((root + intervals[(degree + steps) mod 7]) mod 12), less 12
\* when that exceeds 127, with steps 0, 2, 4, 6, 1, 3, 5 for the tones 1, 3,
\* 5, 7, 9, 11, 13: on every request made (every root, mode, octave, degree
\* and offset, with tones 1, 3, 5 and with all seven), and for every voicing
\* of every root, mode, degree and offset in octave 4 (the list of notes does
\* not depend on the octave); C Ionian I with tones 1, 3, 5 in octave 4 gives
\* 60, 64, 67
C11_MidiFormula ==
    /\ chord_request # <<>> =>
          MidiAsStated(root_idx, mode_idx, chord_request[1], octave,
                       chord_request[2],
                       chord_degree_voicings[chord_request[1]],
                       notes_to_play_tuples(root_idx, mode_idx, chord_request[1],
                          chord_degree_voicings[chord_request[1]]),
                       midi_notes)
    /\ (/\ chord_request = <<0, 0>>
        /\ root_idx = 0 /\ mode_idx = 0 /\ octave = 4
        /\ chord_degree_voicings[0] = DefaultVoicing)
          => midi_notes = <<60, 64, 67>>
    /\ (/\ lastOp = "init"
        /\ chord_degree_voicings[0] = DefaultVoicing
        /\ octave = 4) =>
          \A d \in ChordIdx, v \in [Tones -> BOOLEAN] :
             \A notes \in {notes_to_play_tuples(root_idx, mode_idx, d, v)} :
                \A off \in OctaveOffsets :
                   MidiAsStated(root_idx, mode_idx, d, octave, off, v, notes,
                                chord_midi_notes(notes, octave, off))

\* the main button of chord I was pressed with C Ionian, octave 4 and the
\* voicing the program starts with
C11_Witness ==
    /\ chord_request = <<0, 0>>
    /\ root_idx = 0 /\ mode_idx = 0 /\ octave = 4
    /\ chord_degree_voicings[0] = DefaultVoicing
    /\ midi_notes = <<60, 64, 67>>

\* semitones of the third and of the fifth above the root, as C12 gives them
StatedQualityIntervals ==
    [q \in {"major", "minor", "diminished", "augmented"} |->
        CASE q = "major" -> <<4, 7>> [] q = "minor" -> <<3, 7>>
          [] q = "diminished" -> <<3, 6>> [] q = "augmented" -> <<4, 8>>]

\* semitones, modulo 12, from the MIDI number lo up to the MIDI number hi
SemitonesAbove(lo, hi) == (hi - lo + 132) % 12

\* the position of tone t in the list of notes of the last request (0: absent)
NoteOfTone(t) ==
    LET notes == notes_to_play_tuples(root_idx, mode_idx, chord_request[1],
                    chord_degree_voicings[chord_request[1]])
        at == {i \in 1..Len(notes) : notes[i].tone = t}
    IN IF at = {} THEN 0 ELSE CHOOSE i \in at : TRUE

\* C12: in every mode and on every degree the third and the fifth that
\* stacking scale steps +2 and +4 gives lie above the chord's root, modulo
\* 12, by the semitones of the quality CHORD_QUALITIES lists for the degree
\* (major 4 and 7, minor 3 and 7, diminished 3 and 6, augmented 4 and 8), in
\* the table of notes and in the MIDI numbers of every request made; Aeolian
\* I with the tones 1, 3, 5, 7 is minor and gives four notes, the seventh 10
\* semitones above the root
C12_QualityIntervals ==
    /\ \A d \in ChordIdx :
          LET q == CHORD_QUALITIES[mode_idx + 1][d + 1]
              r == abs_note(root_idx, mode_idx, d, 1)
          IN /\ q \in DOMAIN StatedQualityIntervals
             /\ SemitonesAbove(r, abs_note(root_idx, mode_idx, d, 3))
                   = StatedQualityIntervals[q][1]
             /\ SemitonesAbove(r, abs_note(root_idx, mode_idx, d, 5))
                   = StatedQualityIntervals[q][2]
    /\ chord_request # <<>> =>
          LET q == CHORD_QUALITIES[mode_idx + 1][chord_request[1] + 1]
          IN /\ NoteOfTone(1) # 0 /\ NoteOfTone(3) # 0 /\ NoteOfTone(5) # 0
             /\ SemitonesAbove(midi_notes[NoteOfTone(1)],
                               midi_notes[NoteOfTone(3)])
                   = StatedQualityIntervals[q][1]
             /\ SemitonesAbove(midi_notes[NoteOfTone(1)],
                               midi_notes[NoteOfTone(5)])
                   = StatedQualityIntervals[q][2]
    /\ (chord_request # <<>> /\ chord_request[1] = 0 /\ mode_idx = 5) =>
          /\ CHORD_QUALITIES[mode_idx + 1][1] = "minor"
          /\ Len(midi_notes) = 4
          /\ Len(frequencies) = 4
          /\ NoteOfTone(7) # 0
          /\ SemitonesAbove(midi_notes[NoteOfTone(1)],
                            midi_notes[NoteOfTone(7)]) = 10

\* A Aeolian I in octave 4 with the tones 1, 3, 5, 7: A4, C4, E4, G4
C12_Witness ==
    /\ mode_idx = 5 /\ root_idx = 9 /\ octave = 4
    /\ chord_request = <<0, 0>>
    /\ chord_degree_voicings[0] = SeventhVoicing
    /\ midi_notes = <<69, 60, 64, 67>>

\* E of C13: the octave asked for, clamped to 0..8
ClampedOctave ==
    LET e == octave + chord_request[2]
    IN IF e < 0 THEN 0 ELSE IF e > 8 THEN 8 ELSE e

\* the tone that the i-th note of the last request sounds
ToneOfNote(i) ==
    notes_to_play_tuples(root_idx, mode_idx, chord_request[1],
                         chord_degree_voicings[chord_request[1]])[i].tone

\* C13 as stated: on every request every enabled ninth, eleventh and
\* thirteenth has its MIDI number in 12*(E+2) .. 12*(E+2)+11 and every enabled
\* root, third, fifth and seventh in 12*(E+1) .. 12*(E+1)+11
C13_ExtensionsOctaveAbove ==
    chord_request # <<>> =>
       \A i \in 1..Len(midi_notes) :
          IF ToneOfNote(i) \in {9, 11, 13}
          THEN midi_notes[i] \in (12 * (ClampedOctave + 2))
                                    ..(12 * (ClampedOctave + 2) + 11)
          ELSE midi_notes[i] \in (12 * (ClampedOctave + 1))
                                    ..(12 * (ClampedOctave + 1) + 11)

\* C13: on every request (every root, mode, degree, octave 1..8 and offset)
\* the base tones lie in 12*(E+1) .. 12*(E+1)+11, and a ninth, eleventh or
\* thirteenth lies in the octave above, 12*(E+2) .. 12*(E+2)+11, unless its
\* number there would exceed 127 (E = 8, pitch class 8..11): then it is 12
\* lower, in the octave of the base tones
C13_ExtensionsOctaveAboveUpTo127 ==
    chord_request # <<>> =>
       \A i \in 1..Len(midi_notes) :
          LET m == midi_notes[i]
          IN IF ToneOfNote(i) \in {9, 11, 13}
             THEN IF 12 * (ClampedOctave + 2) + (m % 12) > 127
                  THEN /\ ClampedOctave = 8
                       /\ m % 12 \in 8..11
                       /\ m \div 12 = ClampedOctave + 1
                  ELSE m \div 12 = ClampedOctave + 2
             ELSE m \div 12 = ClampedOctave + 1

\* B Ionian I, octave 8, the + button, all tones: the ninth C#10 = 121 lies
\* an octave above the root B8 = 119, the thirteenth G#9 = 116 does not
C13_Witness ==
    /\ chord_request = <<0, 1>>
    /\ root_idx = 11 /\ mode_idx = 0 /\ octave = 8
    /\ Len(midi_notes) = 7
    /\ ToneOfNote(5) = 9 /\ midi_notes[5] = 121
    /\ ToneOfNote(7) = 13 /\ midi_notes[7] = 116
    /\ midi_notes[1] = 119

\* C14: in every voice buffer that play_chord renders, every note of the
\* chord is added at the sample offset sample_rate * delay of the voice (so
\* nothing is written before it), and its whole segment of
\* int(sample_rate * duration) samples lies inside the buffer: no note is cut
C14_NotesFitVoiceBuffer ==
    \A k \in 1..Len(voice_audio) :
       LET b  == voice_audio[k]
           st == voice_controls[b.voice]
       IN /\ Len(b.notes) = Len(frequencies)
          /\ \A n \in 1..Len(b.notes) :
                /\ b.notes[n].start = (sample_rate * st.delay) \div 1000
                /\ b.notes[n].stop - b.notes[n].start
                      = samples_of_ms_table[st.duration]
                /\ b.notes[n].stop <= b.len
                /\ b.notes[n].cut = 0

\* C15: generate_waveform with duration D (whole milliseconds), delay 0 and
\* both fades 0 returns exactly round(sample_rate * D) samples: the length
\* is an integer nearest to 44100 * D / 1000
C15_LengthIsRounded ==
    (/\ lastOp = "generate_waveform"
     /\ waveform_args.delay = 0
     /\ waveform_args.fade_in = 0
     /\ waveform_args.fade_out = 0)
    => /\ 2 * (1000 * samples.len - sample_rate * waveform_args.duration)
             <= 1000
       /\ 2 * (sample_rate * waveform_args.duration - 1000 * samples.len)
             <= 1000

\* C16: generate_waveform with delay >= duration, the duration giving a
\* positive number of samples, returns a buffer of the full length
\* int(sample_rate * duration) in which no sample was written: all are zero,
\* whatever the waveform type, the volume and the fades
C16_SilenceWhenDelayed ==
    (/\ lastOp = "generate_waveform"
     /\ waveform_args.delay >= waveform_args.duration
     /\ samples_of_ms(waveform_args.duration) > 0)
    => /\ samples.len = samples_of_ms(waveform_args.duration)
       /\ samples.len = (sample_rate * waveform_args.duration) \div 1000
       /\ samples.stop = samples.start
       /\ samples.fade_in = 0 /\ samples.fade_out = 0

C16_Witness ==
    /\ lastOp = "generate_waveform"
    /\ waveform_args.duration = 107
    /\ waveform_args.delay = 300
    /\ waveform_args.waveform_type = "Square"
    /\ waveform_args.volume = 100
    /\ waveform_args.fade_in = 20
    /\ samples.len = 4718
    /\ samples.stop = samples.start

\* a <= b on non-negative doubles
DblLe(a, b) ==
    LET e   == IF a.e >= b.e THEN a.e ELSE b.e
        pa  == a.m \o [i \in 1..(e - a.e) |-> 0]
        pb  == b.m \o [i \in 1..(e - b.e) |-> 0]
        n   == IF Len(pa) >= Len(pb) THEN Len(pa) ELSE Len(pb)
        qa  == [i \in 1..(n - Len(pa)) |-> 0] \o pa
        qb  == [i \in 1..(n - Len(pb)) |-> 0] \o pb
    IN \/ qa = qb
       \/ \E i \in 1..n : /\ qa[i] = 0 /\ qb[i] = 1
                          /\ \A j \in 1..(i - 1) : qa[j] = qb[j]

\* the integers nearest to a non-negative double (two of them at a tie)
NearestInts(d) ==
    LET t    == DblToInt(d)
        frac == IF d.e <= 0 THEN <<>>
                ELSE IF Len(d.m) >= d.e
                     THEN SubSeq(d.m, Len(d.m) - d.e + 1, Len(d.m))
                     ELSE [i \in 1..(d.e - Len(d.m)) |-> 0] \o d.m
    IN IF frac = <<>> \/ frac[1] = 0 THEN {t}
       ELSE IF AllZero(SubSeq(frac, 2, Len(frac))) THEN {t, t + 1}
       ELSE {t + 1}

\* the double k / 8.0 of a summed sample of k eighths
Eighths(k) == DblDiv(Abs(k), 8)

\* C17: once _play_audio_data has mixed a non-empty list of buffers, the
\* mixed buffer has peak absolute amplitude <= 1.0 before it is quantised,
\* so every 16-bit sample lies in [-32767, 32767] and the conversion to
\* int16 does not wrap
C17_MixNeverClips ==
    /\ Len(samples_16bit) = Len(mixed_audio)
    /\ \A i \in 1..Len(mixed_audio) :
          /\ DblLe(mixed_audio[i].abs, DblDiv(1, 1))
          /\ DblToInt(DblMulNat(mixed_audio[i].abs, 32767)) <= 32767
          /\ samples_16bit[i] \in (0 - 32767)..32767
          /\ Abs(samples_16bit[i])
                = DblToInt(DblMulNat(mixed_audio[i].abs, 32767))

C17_Witness ==
    /\ max_abs_val(padded_sum(audio_data_list)) = 18
    /\ \E i \in 1..Len(samples_16bit) : samples_16bit[i] = 0 - 32767
    /\ \E i \in 1..Len(samples_16bit) : Abs(samples_16bit[i]) = 16383

\* C18: mixing never amplifies: once _play_audio_data has mixed, a sum
\* whose peak is <= 1.0 is the mix unchanged, the buffer is divided by the
\* peak only when the peak exceeds 1.0, and every mixed sample is at most as
\* large in magnitude as the summed sample
C18_MixNeverAmplifies ==
    mixed_audio # <<>> =>
        LET sum  == padded_sum(audio_data_list)
            peak == max_abs_val(sum)
        IN /\ Len(mixed_audio) = Len(sum)
           /\ \A i \in 1..Len(sum) :
                 /\ (sum[i] # 0) => (mixed_audio[i].neg <=> sum[i] < 0)
                 /\ DblLe(mixed_audio[i].abs, Eighths(sum[i]))
                 /\ peak <= 8 =>
                       /\ DblLe(Eighths(sum[i]), mixed_audio[i].abs)
                       /\ samples_16bit[i] * 8 - sum[i] * 32767 \in -7..7
                 /\ peak > 8 =>
                       /\ DblLe(mixed_audio[i].abs,
                                DblDiv(Abs(sum[i]), peak))
                       /\ DblLe(DblDiv(Abs(sum[i]), peak),
                                mixed_audio[i].abs)

C18_Witness ==
    /\ mixed_audio # <<>>
    /\ max_abs_val(padded_sum(audio_data_list)) = 3
    /\ \E i \in 1..Len(samples_16bit) : samples_16bit[i] = 0 - 12287

\* C19: each 16-bit sample equals round(s * 32767) for the sample s of the
\* normalised mix at the same index: it is an integer nearest to the product
C19_QuantisedByRounding ==
    \A i \in 1..Len(mixed_audio) :
        Abs(samples_16bit[i])
            \in NearestInts(DblMulNat(mixed_audio[i].abs, 32767))

\* C20: once the preset store is initialised, and after every save, delete
\* and reset, a preset named "Default" exists; delete("Default") returns
\* false and leaves the store unchanged; delete of any other stored name
\* returns true and removes exactly that name; and the list of names has
\* "Default" as its first entry
C20_DefaultProtected ==
    preset_call.op # "init_raised" =>
        /\ contains(presets, "Default")
        /\ (preset_call.op = "delete" /\ preset_call.name = "Default") =>
              /\ preset_call.ret = "False"
              /\ presets = preset_call.before
        /\ (/\ preset_call.op = "delete"
            /\ preset_call.name # "Default"
            /\ contains(preset_call.before, preset_call.name)) =>
              /\ preset_call.ret = "True"
              /\ ~contains(presets, preset_call.name)
              /\ presets.items = dict_del(preset_call.before.items,
                                          preset_call.name)
              /\ Len(presets.items) = Len(preset_call.before.items) - 1
        /\ preset_call.op = "names" =>
              /\ preset_call.ret = "list"
              /\ preset_call.names # <<>>
              /\ preset_call.names[1] = "Default"
              /\ {preset_call.names[i] : i \in 1..Len(preset_call.names)}
                    = {presets.items[i][1] : i \in 1..Len(presets.items)}

\* the same for a store that is a dict: every store but the one loaded from a
\* presets.json whose top-level JSON value is an array
C20_DefaultProtectedInDict ==
    presets.type = "dict" => C20_DefaultProtected

\* the settings that the file holds for a name
persisted(name) ==
    LET it == presets_file.value.items
        i  == CHOOSE k \in 1..Len(it) : it[k][1] = name
    IN [k \in 1..Len(it[i][2]) |-> voice_of_json(it[i][2][k])]

\* C21: preset round trip: after save(name, s), and until name is saved
\* again, deleted or reset, get(name) returns settings equal to s, the file
\* written holds s for name, and a store re-created from the file returns
\* settings equal to s for name
C21_PresetRoundTrip ==
    \A name \in DataNames :
       last_saved[name] # <<>> =>
          /\ contains(presets, name)
          /\ value_of(heap, get_preset(presets, name)) = last_saved[name]
          /\ contains(presets_file.value, name)
          /\ persisted(name) = last_saved[name]
          /\ (lastOp = "get" /\ preset_call.name = name) =>
                /\ held = lookup(presets, name)
                /\ voice_controls = last_saved[name]

\* settings with the first voice disabled were saved as "Mine", the program
\* was started again and the preset was loaded
C21_Witness ==
    /\ Len(heap) > Len(module_heap) + Cardinality(Voices)
    /\ lastOp = "get"
    /\ preset_call = [op |-> "get", name |-> "Mine"]
    /\ last_saved["Mine"] # <<>>
    /\ ~last_saved["Mine"][1].enable
    /\ ~voice_controls[1].enable

\* C23: a preset requested by a name that is not in the store: the settings
\* applied are the hardcoded default set, the request ends as any other (no
\* error), and the store is unchanged in memory and in the file
C23_MissingPresetFallsBack ==
    [][(LoadPreset /\ ~contains(presets, preset_call'.name)) =>
          /\ voice_controls' = DEFAULT_PRESET
          /\ held' = builtin_list("Default")
          /\ lastOp' = "get"
          /\ UNCHANGED <<presets, presets_file, heap>>]_vars

\* "Mine" was requested while not stored, the controls not being at the
\* defaults before
C23_Witness ==
    /\ lastOp = "get"
    /\ preset_call = [op |-> "get", name |-> "Mine"]
    /\ ~contains(presets, "Mine")
    /\ voice_controls = DEFAULT_PRESET
    /\ last_saved["Bright"] # <<>>
    /\ last_saved["Bright"] # DEFAULT_PRESET

\* C27: the store hands out and keeps copies: whatever the caller does to a
\* list it got from get_preset or gave to save_preset, the built-in presets
\* are as the module made them and get_preset of a saved name returns the
\* settings that were saved
C27_CopiesAreIndependent ==
    /\ SubSeq(heap, 1, Len(module_heap)) = module_heap
    /\ \A name \in DataNames :
          last_saved[name] # <<>> =>
             value_of(heap, get_preset(presets, name)) = last_saved[name]

\* C22: loading the preset store never crashes: whatever malformed content
\* presets.json has (not JSON, or JSON that is no object), the construction
\* of the store completes, the store then holds the built-in defaults, and
\* these are written back to the file
C22_LoadNeverCrashes ==
    (/\ lastOp = "init"
     /\ \/ preset_call.name = "invalid"
        \/ preset_call.name = "json" /\ preset_call.before.type # "dict")
    => /\ preset_call.op = "init"
       /\ presets = initial_presets
       /\ presets_file = [kind |-> "json", value |-> initial_presets]

\* the same for a file that is not JSON at all
C22_NotJsonFallsBack ==
    (lastOp = "init" /\ preset_call.name = "invalid")
    => /\ preset_call.op = "init"
       /\ presets = initial_presets
       /\ presets_file = [kind |-> "json", value |-> initial_presets]

\* the envelope as stated, at index i of a sound of ss samples with fade
\* lengths fi and fo: the fade-out curve on the last fo indices when
\* 0 < fo < ss, else the fade-in curve on the first fi indices when
\* 0 < fi < ss, else 1.0
StatedEnvelope(fi, fo, ss, i) ==
    IF 0 < fo /\ fo < ss /\ i >= ss - fo
    THEN [curve |-> "fade_out", k |-> i - (ss - fo), n |-> fo]
    ELSE IF 0 < fi /\ fi < ss /\ i < fi
    THEN [curve |-> "fade_in", k |-> i, n |-> fi]
    ELSE [curve |-> "ones", k |-> 0, n |-> 0]

\* the indices at which the envelope is compared: both ends of the sound,
\* both sides of the end of the fade-in window and of the start of the
\* fade-out window, and the middle
EnvelopeProbes(fi, fo, ss) ==
    {0, fi - 1, fi, ss - fo - 1, ss - fo, ss \div 2, ss - 1} \cap 0..(ss - 1)

\* C24: the envelope of generate_waveform is built in sequence: the fade-in
\* is written over the first fade_in_samples only when
\* 0 < fade_in_samples < sound_samples, then the fade-out over the last
\* fade_out_samples only when 0 < fade_out_samples < sound_samples; where
\* both windows overlap the envelope is the fade-out curve alone, and a fade
\* of length >= sound_samples is not applied at all
C24_EnvelopeInSequence ==
    (lastOp = "generate_waveform" /\ samples.stop > samples.start)
    => LET fi == samples_of_ms(waveform_args.fade_in)
           fo == samples_of_ms(waveform_args.fade_out)
           ss == samples.sound_samples
       IN /\ Len(samples.envelope) <= 2
          /\ (fi >= ss => \A j \in 1..Len(samples.envelope) :
                             samples.envelope[j].curve # "fade_in")
          /\ (fo >= ss => \A j \in 1..Len(samples.envelope) :
                             samples.envelope[j].curve # "fade_out")
          /\ \A i \in EnvelopeProbes(fi, fo, ss) :
                envelope_at(samples, i) = StatedEnvelope(fi, fo, ss, i)

\* a sound of 308 samples with both fades of 220 samples: the windows
\* overlap on the indices 88..219
C24_Witness ==
    /\ lastOp = "generate_waveform"
    /\ waveform_args.duration = 107 /\ waveform_args.delay = 100
    /\ waveform_args.fade_in = 5 /\ waveform_args.fade_out = 5
    /\ samples.sound_samples = 308
    /\ Len(samples.envelope) = 2
    /\ envelope_at(samples, 88) = [curve |-> "fade_out", k |-> 0, n |-> 220]
    /\ envelope_at(samples, 87) = [curve |-> "fade_in", k |-> 87, n |-> 220]

\* g <= h on the gains of linspace_1_0
GainLe(g, h) == g.num * h.den <= h.num * g.den

\* the gain that the fade window of session s applies to buffer index i
FadeGain(s, i) == linspace_1_0(worker[s].fade_len, i - worker[s].abort_at)

\* the gains applied to the fade chunks written so far never increase,
\* within a chunk and from one chunk to the next, and start at 1.0
FadeGainsFall(s) ==
    /\ \A j \in 1..Len(writes[s]) :
          IsFade(writes[s][j]) =>
             /\ GainLe(FadeGain(s, writes[s][j].hi - 1),
                       FadeGain(s, writes[s][j].lo))
             /\ (j > 1 /\ IsFade(writes[s][j - 1]))
                   => GainLe(FadeGain(s, writes[s][j].lo),
                             FadeGain(s, writes[s][j - 1].hi - 1))
             /\ writes[s][j].lo = worker[s].abort_at
                   => FadeGain(s, writes[s][j].lo).num
                         = FadeGain(s, writes[s][j].lo).den

\* C25: the abort fade multiplies its window by a gain that falls linearly
\* from 1.0 on the first sample to 0.0 on the last: for every non-empty fade
\* window the gains are non-increasing and the last sample written to the
\* device (the last of the window) has gain zero, so is zero
C25_FadeRampsToZero ==
    \A s \in Sessions :
       /\ FadeGainsFall(s)
       /\ \A j \in 1..Len(writes[s]) :
             (/\ IsFade(writes[s][j])
              /\ writes[s][j].hi = worker[s].abort_at + worker[s].fade_len)
             => FadeGain(s, writes[s][j].hi - 1).num = 0

\* the same for every fade window of two or more samples
C25_RampOfTwoOrMore ==
    \A s \in Sessions :
       /\ FadeGainsFall(s)
       /\ \A j \in 1..Len(writes[s]) :
             (/\ IsFade(writes[s][j])
              /\ worker[s].fade_len >= 2
              /\ writes[s][j].hi = worker[s].abort_at + worker[s].fade_len)
             => FadeGain(s, writes[s][j].hi - 1).num = 0

\* the j-th chunk of a buffer of n samples cut into chunks of 512
ChunkOf(n, j) ==
    [kind |-> "normal", lo |-> 512 * (j - 1), hi |-> Min(512 * j, n)]

\* ceil(n / 512)
ChunksIn(n) == (n + 511) \div 512

\* C26: in a session in which the worker saw no abort and no device call
\* failed, the samples of the N-sample buffer are written once each and in
\* buffer order, in chunks of exactly 512 samples except possibly the last;
\* when the loop has ended all ceil(N / 512) chunks are written and the
\* session is Completed
C26_WholeBufferInChunks ==
    \A s \in Sessions :
       (/\ worker[s].pc # "unborn"
        /\ ~worker[s].faulted
        /\ worker[s].abort_at = -1)
       => /\ Len(writes[s]) <= ChunksIn(worker[s].N)
          /\ \A j \in 1..Len(writes[s]) :
                writes[s][j] = ChunkOf(worker[s].N, j)
          /\ worker[s].pc \in {"finally", "stop_stream", "close", "done"}
                => /\ Len(writes[s]) = ChunksIn(worker[s].N)
                   /\ worker[s].exit = "complete"
                   /\ SessionState(s) = "Completed"

\* a buffer of 1100 samples was played to its end: chunks of 512, 512 and 76
C26_Witness ==
    \E s \in Sessions :
       /\ worker[s].pc = "done"
       /\ ~worker[s].faulted
       /\ worker[s].abort_at = -1
       /\ worker[s].N = 1100
       /\ Len(writes[s]) = 3
       /\ writes[s][3] = [kind |-> "normal", lo |-> 1024, hi |-> 1100]
       /\ SessionState(s) = "Completed"

\* a play request that resolves to silence: a chord with no tone or no
\* voice enabled, or buffers that are all empty
SilentRequest == SilentChordRequest \/ PlayEmptyBuffers

\* the last request made was one that resolves to silence
SilentRequestMade ==
    lastOp \in {"play_chord_no_tone", "play_chord_no_voice", "play_nothing"}

\* the worker that the handle names is streaming
HandleStreaming ==
    \E s \in Sessions :
       s = audio_playback_thread /\ SessionState(s) = "Streaming"

\* the worker that the handle names has ended, having played its whole
\* buffer unless one of its device calls failed
HandleEnded ==
    \E s \in Sessions :
       /\ s = audio_playback_thread
       /\ worker[s].pc \in {"done", "crashed"}
       /\ \/ worker[s].faulted
          \/ /\ worker[s].exit = "complete"
             /\ Len(writes[s]) = ChunksIn(worker[s].N)

\* C28: a play request that resolves to silence (no voicing tone enabled,
\* no voice enabled, or only empty buffers) leaves an already streaming
\* session untouched: the abort flag is not raised, the handle of the
\* current worker is unchanged, nothing of the sessions changes, and the
\* running session goes on to its normal completion (unless a later request
\* raises the flag or a device call fails)
C28_SilenceLeavesSession ==
    /\ [][SilentRequest =>
             /\ ctl' = "idle"
             /\ UNCHANGED <<abort_audio_flag, audio_playback_thread, worker,
                            stream, writes, events, nplays, pending>>]_vars
    /\ (SilentRequestMade /\ HandleStreaming /\ ~abort_audio_flag)
          ~> (abort_audio_flag \/ HandleEnded)

\* a request with only empty buffers returned while the first session was
\* in the middle of its buffer
C28_Witness ==
    /\ lastOp = "play_nothing"
    /\ nplays = 1
    /\ audio_playback_thread = 1
    /\ ~abort_audio_flag
    /\ worker[1].pc = "write"
    /\ worker[1].offset > 0
    /\ SessionState(1) = "Streaming"

\* a play request or a teardown was made after session s was started
LaterRequest(s) ==
    nplays > s \/ ctl \in {"play_join", "close_join", "closed"}

\* session s has ended without having written its whole buffer normally
EndedShort(s) ==
    /\ worker[s].pc \in {"done", "crashed"}
    /\ writes[s] # [j \in 1..ChunksIn(worker[s].N) |-> ChunkOf(worker[s].N, j)]

\* whenever a new worker is started the worker named by the handle before has
\* terminated, no other worker is alive and the flag is false
StartsClean ==
    [][audio_playback_thread' # audio_playback_thread =>
          /\ audio_playback_thread # 0 => ~is_alive(audio_playback_thread)
          /\ \A s \in Sessions :
                s # audio_playback_thread'
                   => worker'[s].pc \in {"unborn", "done", "crashed"}
          /\ worker'[audio_playback_thread'].pc = "open"
          /\ ~abort_audio_flag']_vars

\* the flag becomes true only in a play request or in teardown
RaisedOnlyByRequests ==
    [][(~abort_audio_flag /\ abort_audio_flag') =>
          \/ lastOp' = "play" /\ ctl' = "play_join"
          \/ lastOp' = "close" /\ ctl' = "close_join"]_vars

\* every session that is started ends
SessionsEnd ==
    \A s \in Sessions :
       (worker[s].pc = "open") ~> (worker[s].pc \in {"done", "crashed"})

EnabledTones(v) == Cardinality({t \in Tones : v[t]})

\* no two of the MIDI numbers are the same, and none was dropped from the
\* frequencies: there are n of each
NoneDropped(midis, freqs, n) ==
    /\ Len(midis) = n
    /\ \A i, j \in 1..Len(midis) : i # j => midis[i] # midis[j]
    /\ Len(freqs) = n

\* C30: for every root, mode, degree, octave 1..8, offset -1, 0 or +1 and
\* voicing, play_chord resolves as many pitches as the voicing has tones
\* enabled: two enabled tones never get the same MIDI number, also after
\* the subtraction of 12 above 127, so sorted(list(set(...))) drops none
C30_NoToneDropped ==
    /\ lastOp \in {"play_chord", "play_chord_no_voice", "play_chord_no_tone"}
          => NoneDropped(midi_notes, frequencies,
                         EnabledTones(chord_degree_voicings[chord_request[1]]))
    /\ (lastOp = "init" /\ chord_degree_voicings[0] = ExtendedVoicing) =>
          \A d \in ChordIdx, v \in [Tones -> BOOLEAN] :
             \A notes \in {notes_to_play_tuples(root_idx, mode_idx, d, v)} :
                \A off \in OctaveOffsets :
                   \A midis \in {chord_midi_notes(notes, octave, off)} :
                      NoneDropped(midis, chord_frequencies(midis),
                                  EnabledTones(v))

\* all seven tones of B Ionian I in octave 8 with offset +1: the ninth,
\* eleventh and thirteenth are brought down by 12 into the octave of the
\* others, and seven pitches are resolved
C30_Witness ==
    /\ lastOp = "play_chord_no_voice"
    /\ root_idx = 11 /\ mode_idx = 0 /\ octave = 8
    /\ chord_request = <<0, 1>>
    /\ EnabledTones(chord_degree_voicings[0]) = 7
    /\ \E i \in 1..Len(midi_notes) : midi_notes[i] = 116
    /\ Len(midi_notes) = 7
    /\ Len(frequencies) = 7


====
